---- MODULE Spec2Model ----
(***************************************************************************)
(* SimpleFREDSite, client side: the App component (the fetch-then-         *)
(* summarize pipeline of handleSubmit), the Sidebar with its persisted     *)
(* layout flags, the CategoryBrowser / CategoryDetail navigator and the    *)
(* api.js gateway client.                                                  *)
(*                                                                         *)
(* Strings that the code inspects (the series id, which is trimmed and     *)
(* upper-cased) are sequences of one-character strings.  A JavaScript      *)
(* value that may be null is a sequence of length 0 (null) or 1.           *)
(***************************************************************************)
EXTENDS Naturals, Sequences, FiniteSets, Bags, TLC

\* ------------------------------------------------------------------ bounds

\* Longest text typed into the series id input.
MaxLen == 2
\* Successful submissions the gateway answers (caps categoryBrowserKey).
MaxResets == 1
\* CategorySeriesPage requests outstanding at once.
MaxPageReqs == 2

\* Observations in one SeriesData.
MaxObs == 3

\* The time the script waits for a service, in seconds (60 in the script).
timeout == 8

\* ------------------------------------------------------------ JS values

null == <<>>
Some(v) == <<v>>
IsNull(o) == o = <<>>
Val(o) == o[1]

\* Characters of typed text: a blank and a lower-case letter; "G" is the
\* letter's upper case and the text of catalogued series ids.
TypedChars == {" ", "g"}

RECURSIVE StringsUpTo(_)
StringsUpTo(n) ==
  IF n = 0 THEN {<<>>}
  ELSE LET shorter == StringsUpTo(n - 1)
       IN  shorter \cup {Append(s, c) : s \in shorter, c \in TypedChars}

\* Values the input's onChange can deliver.
TypedInputs == StringsUpTo(MaxLen)

\* The values one edit of the text s can leave in the input: a character
\* appended, the last character deleted, or the whole text selected and
\* deleted or overtyped by one character.
Edits(s) ==
  ( {<<>>} \cup {<<c>> : c \in TypedChars}
    \cup {Append(s, c) : c \in TypedChars}
    \cup (IF s = <<>> THEN {} ELSE {SubSeq(s, 1, Len(s) - 1)}) )
  \cap (TypedInputs \ {s})

IsWhiteSpace(c) == c = " "

\* String.prototype.trim: leading and trailing white space removed.
RECURSIVE TrimStart(_)
TrimStart(s) ==
  IF s # <<>> /\ IsWhiteSpace(Head(s)) THEN TrimStart(Tail(s)) ELSE s

RECURSIVE TrimEnd(_)
TrimEnd(s) ==
  IF s # <<>> /\ IsWhiteSpace(s[Len(s)])
  THEN TrimEnd(SubSeq(s, 1, Len(s) - 1))
  ELSE s

trim(s) == TrimEnd(TrimStart(s))

UpperChar(c) == IF c = "g" THEN "G" ELSE c

\* String.prototype.toUpperCase.
toUpperCase(s) == [i \in 1..Len(s) |-> UpperChar(s[i])]

\* JavaScript truthiness of a string: the empty string is falsy.  Truthy is
\* for the opaque texts (messages, names, search terms), TruthyText for the
\* character sequences.
Truthy(s) == s # ""
TruthyText(s) == s # <<>>

\* a || b on strings.
OrElse(a, b) == IF Truthy(a) THEN a ELSE b

\* --------------------------------------------------- gateway (api.js)

\* An HTTP exchange as the client sees it.  transport: the message of a
\* failed fetch() (null when a response arrived); json: whether the body
\* parses; detail: the body's `detail` ("" when absent); payload: the body
\* of a success, null otherwise.
Exchange(transport, ok, status, json, detail, payload) ==
  [transport |-> transport, ok |-> ok, status |-> status, json |-> json,
   detail |-> detail, payload |-> payload]

\* `HTTP error! status: ${response.status}`
HttpErrorMessage(status) ==
  IF status = 404 THEN "HTTP error! status: 404"
  ELSE IF status = 400 THEN "HTTP error! status: 400"
  ELSE "HTTP error! status: 500"

\* A client that reports the status line whatever the body says.
RejectionStatusOnly(x) == HttpErrorMessage(x.status)

\* The message of the Error thrown for a non-OK response:
\* error.detail || `HTTP error! status: ...`, error = {} when the body does
\* not parse.
RejectionMessage(x) ==
  LET detail == IF x.json THEN x.detail ELSE ""
  IN  OrElse(detail, HttpErrorMessage(x.status))

Fulfilled(v) == [rejected |-> FALSE, message |-> "", value |-> Some(v)]
Rejected(m) == [rejected |-> TRUE, message |-> m, value |-> null]

\* What each of fetchFREDData, fetchCategories and fetchCategorySeries does
\* with the exchange: reject on a transport failure or a non-OK status,
\* else return the parsed body.
ParsedBody(x) ==
  IF ~IsNull(x.transport) THEN Rejected(Val(x.transport))
  ELSE IF ~x.ok THEN Rejected(RejectionMessage(x))
  ELSE Fulfilled(Val(x.payload))

fetchFREDData(x) == ParsedBody(x)

\* A summarize body: a bare string, or an object with or without `summary`.
SummaryBody(isString, text) == [isString |-> isString, text |-> text]

\* summarizeData: a string is returned as it is, an object yields
\* result.summary || result.
summarizeData(x) ==
  LET r == ParsedBody(x)
  IN  IF r.rejected THEN r
      ELSE LET result == Val(r.value)
           IN  IF result.isString THEN Fulfilled(result)
               ELSE IF Truthy(result.text)
                    THEN Fulfilled(SummaryBody(TRUE, result.text))
                    ELSE Fulfilled(result)

fetchCategories(x) == ParsedBody(x)

\* A client that sends the q parameter for every term, the empty one too.
QueryOfAnyTerm(searchTerm) == Some(searchTerm)

\* fetchCategorySeries(categoryId, searchTerm): the q parameter is sent only
\* for a truthy search term.
QueryOf(searchTerm) == IF Truthy(searchTerm) THEN Some(searchTerm) ELSE null

fetchCategorySeries(x) == ParsedBody(x)

\* ----------------------------------------------- the gateway's answers

SeriesData(id, n) == [series_id |-> id, observation_count |-> n]

\* The provider's observation count of a series: "G" has two observations,
\* every other series none.
ObservationCount(id) == IF id = <<"G">> THEN 2 ELSE 0

NetworkError == Exchange(Some("Network error"), FALSE, 0, FALSE, "", null)

\* POST /api/fred/fetch {series_id}
FetchExchanges(id) ==
  { Exchange(null, TRUE, 200, TRUE, "", Some(SeriesData(id, ObservationCount(id)))),
    Exchange(null, FALSE, 404, TRUE, "Series ID not found", null),
    Exchange(null, FALSE, 500, FALSE, "", null),
    NetworkError }

\* POST /api/summarize {data}
SummarizeExchanges ==
  { Exchange(null, TRUE, 200, TRUE, "", Some(SummaryBody(TRUE, "Summary"))),
    Exchange(null, TRUE, 200, TRUE, "", Some(SummaryBody(FALSE, "Summary"))),
    Exchange(null, FALSE, 500, TRUE, "Failed to generate summary", null),
    Exchange(null, FALSE, 500, TRUE, "", null) }

Category(id, name) == [id |-> id, name |-> name]

CategoryCollection ==
  << Category("employment", "Employment"), Category("inflation", "Inflation") >>

\* The parsed body of GET /api/categories: `categories` may be missing.
CategoryBody(hasList, list) == [hasCategories |-> hasList, categories |-> list]

CategoriesExchanges ==
  { Exchange(null, TRUE, 200, TRUE, "", Some(CategoryBody(TRUE, CategoryCollection))),
    Exchange(null, TRUE, 200, TRUE, "", Some(CategoryBody(TRUE, <<>>))),
    Exchange(null, TRUE, 200, TRUE, "", Some(CategoryBody(FALSE, <<>>))),
    Exchange(null, FALSE, 500, TRUE, "Failed to load", null) }

SearchTerms == {"", "u"}

\* The series the gateway lists for a category and an optional filter.
CatalogSeries(categoryId, q) ==
  IF categoryId = "employment"
  THEN IF IsNull(q) THEN << <<"G">>, <<"G", "G">> >> ELSE << <<"G", "G">> >>
  ELSE IF IsNull(q) THEN << <<"G">> >> ELSE <<>>

CatalogName(categoryId) ==
  IF categoryId = "employment" THEN "Employment"
  ELSE IF categoryId = "gdp" THEN "GDP"
  ELSE IF categoryId = "unlisted" THEN "Unlisted"
  ELSE "Inflation"

PageBody(name, total, list) ==
  [category_name |-> name, total_count |-> total, series |-> list]

\* GET /api/categories/{id}?q=<term>
CategorySeriesExchanges(categoryId, q) ==
  { Exchange(null, TRUE, 200, TRUE, "",
             Some(PageBody(CatalogName(categoryId),
                           Len(CatalogSeries(categoryId, null)),
                           CatalogSeries(categoryId, q)))),
    Exchange(null, FALSE, 500, TRUE, "Category lookup failed", null) }

\* ------------------------------------------------------------- state

VARIABLES
  \* App (App.jsx:108-121)
  seriesId, loading, error, fredData, summary, activeTab, categoryBrowserKey,
  \* handleSubmit invocations suspended at an await, in order of submission
  requests,
  \* Sidebar (Sidebar.jsx:24-38) and the browser's localStorage
  sidebarOpen, categoriesExpanded, analyticsExpanded, localStorage,
  \* CategoryBrowser (App.jsx:382-386)
  categories, selectedCategoryId, selectedCategoryName, browserLoading,
  browserError,
  \* the mounted CategoryBrowser's fetchCategories call is outstanding
  listPending,
  \* CategoryDetail (CategoryDetail.jsx:21-26)
  series, detailLoading, detailError, searchTerm, displayedCategoryName,
  totalCount,
  \* loadSeries invocations of the mounted CategoryDetail suspended at their
  \* await (a bag: completions arrive in any order)
  pageRequests,
  \* loadSeries invocations of CategoryDetail instances that were unmounted
  \* before the response came (a set: their completions change nothing)
  abandoned,
  \* the run of run_integration_tests.sh
  script

appVars == << seriesId, loading, error, fredData, summary, activeTab,
              categoryBrowserKey, requests >>
sidebarVars == << sidebarOpen, categoriesExpanded, analyticsExpanded,
                  localStorage >>
browserVars == << categories, selectedCategoryId, selectedCategoryName,
                  browserLoading, browserError, listPending >>
detailVars == << series, detailLoading, detailError, searchTerm,
                 displayedCategoryName, totalCount >>
navigatorVars == << browserVars, detailVars, pageRequests, abandoned >>
vars == << appVars, sidebarVars, navigatorVars, script >>

\* The script before it is run: pc is the line it is at, elapsed and
\* TEST_EXIT_CODE its shell variables, services whether the Docker Compose
\* services are up, output what it has echoed, exit its exit status.
NotRun ==
  [pc |-> "compose-up", elapsed |-> 0, TEST_EXIT_CODE |-> null,
   services |-> FALSE, output |-> <<>>, exit |-> null]

\* ----------------------------------------------------------- Sidebar

\* Boolean.prototype.toString
BoolText(b) == IF b THEN "true" ELSE "false"

\* An initialiser that takes the default whatever is stored.
StoredFlagIgnored(saved, fallback) == fallback

\* saved !== null ? saved === 'true' : fallback
StoredFlag(saved, fallback) ==
  IF ~IsNull(saved) THEN Val(saved) = "true" ELSE fallback

Storage(open, cats, analytics) ==
  [sidebarOpen |-> open, categoriesExpanded |-> cats,
   analyticsExpanded |-> analytics]

\* What the three persistence effects leave in localStorage.
Persisted(open, cats, analytics) ==
  Storage(Some(BoolText(open)), Some(BoolText(cats)), Some(BoolText(analytics)))

\* CategoryBrowser is rendered only inside an open sidebar with the
\* Categories section expanded.
BrowserMounted == sidebarOpen /\ categoriesExpanded

\* CategoryDetail is rendered by a mounted CategoryBrowser with a selected
\* category (the error branch comes first in the render).
DetailMounted ==
  /\ BrowserMounted
  /\ ~(~IsNull(browserError) /\ ~browserLoading)
  /\ ~IsNull(selectedCategoryId)

\* ------------------------------------------- mounting and unmounting

\* An unmount after which the suspended loadSeries invocations still update
\* the Detail state, as if that state outlived the instance.
NoDetailKeepingRequests ==
  /\ series' = <<>>
  /\ detailLoading' = FALSE
  /\ detailError' = null
  /\ searchTerm' = ""
  /\ displayedCategoryName' = ""
  /\ totalCount' = 0
  /\ UNCHANGED << pageRequests, abandoned >>

\* No CategoryDetail instance: its state does not exist.
NoDetail ==
  /\ series' = <<>>
  /\ detailLoading' = FALSE
  /\ detailError' = null
  /\ searchTerm' = ""
  /\ displayedCategoryName' = ""
  /\ totalCount' = 0
  /\ pageRequests' = EmptyBag
  /\ abandoned' = abandoned \cup BagToSet(pageRequests)

\* A mount that carries the selection over from the previous instance, as
\* if it were kept outside the component.
MountBrowserKeepingSelection(mounted) ==
  /\ categories' = <<>>
  /\ UNCHANGED << selectedCategoryId, selectedCategoryName >>
  /\ browserLoading' = mounted
  /\ browserError' = null
  /\ listPending' = mounted
  /\ NoDetail

\* A CategoryBrowser instance mounts (mounted = TRUE): initial state and the
\* mount effect's fetchCategories call; or none is rendered (FALSE).  An
\* instance that goes away takes its outstanding fetchCategories call with
\* it: the completion updates no state.
MountBrowser(mounted) ==
  /\ categories' = <<>>
  /\ selectedCategoryId' = null
  /\ selectedCategoryName' = null
  /\ browserLoading' = mounted
  /\ browserError' = null
  /\ listPending' = mounted
  /\ NoDetail

\* A new Sidebar instance: the state initialisers read localStorage, the
\* effects write the flags back, and CategoryBrowser mounts if rendered.
MountSidebar ==
  LET open == StoredFlag(localStorage.sidebarOpen, TRUE)
      cats == StoredFlag(localStorage.categoriesExpanded, TRUE)
      analytics == StoredFlag(localStorage.analyticsExpanded, FALSE)
  IN  /\ sidebarOpen' = open
      /\ categoriesExpanded' = cats
      /\ analyticsExpanded' = analytics
      /\ localStorage' = Persisted(open, cats, analytics)
      /\ MountBrowser(open /\ cats)

\* The flags change within one Sidebar instance: CategoryBrowser is mounted
\* afresh, unmounted, or left alone.
Rerender(open, cats) ==
  IF (open /\ cats) = BrowserMounted
  THEN UNCHANGED navigatorVars
  ELSE MountBrowser(open /\ cats)

toggleSidebar ==
  /\ sidebarOpen' = ~sidebarOpen
  /\ localStorage' = [localStorage EXCEPT !.sidebarOpen = Some(BoolText(~sidebarOpen))]
  /\ Rerender(~sidebarOpen, categoriesExpanded)
  /\ UNCHANGED << appVars, script, categoriesExpanded, analyticsExpanded >>

toggleCategories ==
  /\ sidebarOpen
  /\ categoriesExpanded' = ~categoriesExpanded
  /\ localStorage' = [localStorage EXCEPT
                        !.categoriesExpanded = Some(BoolText(~categoriesExpanded))]
  /\ Rerender(sidebarOpen, ~categoriesExpanded)
  /\ UNCHANGED << appVars, script, sidebarOpen, analyticsExpanded >>

toggleAnalytics ==
  /\ sidebarOpen
  /\ analyticsExpanded' = ~analyticsExpanded
  /\ localStorage' = [localStorage EXCEPT
                        !.analyticsExpanded = Some(BoolText(~analyticsExpanded))]
  /\ UNCHANGED << appVars, script, sidebarOpen, categoriesExpanded, navigatorVars >>

\* ---------------------------------------------------------------- App

InputErrorMessage == "Please enter a FRED series ID"
FetchFallbackMessage == "An error occurred while fetching data"

\* A form whose controls are never disabled.
SubmitAlwaysEnabled == TRUE

\* The input and the submit button carry disabled={loading}.
SubmitEnabled == ~loading

\* The validation without the trim.
IsValidInputUntrimmed(s) == TruthyText(s)

\* The guard of handleSubmit: !seriesId.trim() ends it with an input error.
IsValidInput(s) == TruthyText(trim(s))

\* The identifier as typed, trimmed but not upper-cased.
NormalizedIdAsTyped(s) == trim(s)

\* The identifier handed to fetchFREDData.
NormalizedId(s) == toUpperCase(trim(s))

FetchRequest(id) == [op |-> "fetch", id |-> id, data |-> null]
\* A summarize request built from the identifier instead of the fetched
\* data.
SummarizeRequestOfIdOnly(id, data) ==
  [op |-> "summarize", id |-> id, data |-> Some(SeriesData(id, 0))]
SummarizeRequest(id, data) == [op |-> "summarize", id |-> id, data |-> Some(data)]

Remove(seq, i) == SubSeq(seq, 1, i - 1) \o SubSeq(seq, i + 1, Len(seq))

\* onChange of the series id input.
handleInputChange ==
  /\ SubmitEnabled
  /\ \E v \in Edits(seriesId) : seriesId' = v
  /\ UNCHANGED << loading, error, fredData, summary, activeTab,
                  categoryBrowserKey, requests, script, sidebarVars, navigatorVars >>

\* Loading entered without clearing what the last submission left.
EnterLoadingOnly ==
  /\ loading' = TRUE
  /\ error' = null
  /\ UNCHANGED << fredData, summary >>

\* Loading entered with the data cleared and the summary left in place.
EnterLoadingKeepingSummary ==
  /\ loading' = TRUE
  /\ error' = null
  /\ fredData' = null
  /\ UNCHANGED summary

\* setLoading(true), setError(null), setFredData(null), setSummary(null).
EnterLoading ==
  /\ loading' = TRUE
  /\ error' = null
  /\ fredData' = null
  /\ summary' = null

\* A handler that enters Loading before it validates the input.
handleSubmitLoadingFirst ==
  /\ SubmitEnabled
  /\ IF ~IsValidInput(seriesId)
     THEN /\ error' = Some(InputErrorMessage)
          /\ loading' = TRUE
          /\ UNCHANGED << fredData, summary, requests, script >>
     ELSE /\ EnterLoading
          /\ UNCHANGED script
          /\ requests' = Append(requests, FetchRequest(NormalizedId(seriesId)))
  /\ UNCHANGED << seriesId, activeTab, categoryBrowserKey, sidebarVars,
                  navigatorVars >>

\* handleSubmit up to its first await (or its early return).
handleSubmit ==
  /\ SubmitEnabled
  /\ IF ~IsValidInput(seriesId)
     THEN /\ error' = Some(InputErrorMessage)
          /\ UNCHANGED << loading, fredData, summary, requests, script >>
     ELSE /\ EnterLoading
          /\ UNCHANGED script
          /\ requests' = Append(requests, FetchRequest(NormalizedId(seriesId)))
  /\ UNCHANGED << seriesId, activeTab, categoryBrowserKey, sidebarVars,
                  navigatorVars >>

\* A handler that never calls resetCategoryBrowser.
resetCategoryBrowserSkipped ==
  UNCHANGED << categoryBrowserKey, sidebarVars, navigatorVars >>

\* resetCategoryBrowser: the Sidebar's key changes, so React unmounts the
\* Sidebar with everything below it and mounts a new one.
resetCategoryBrowser ==
  /\ categoryBrowserKey' = categoryBrowserKey + 1
  /\ MountSidebar

\* A catch block that shows the generic message whatever the error says.
CatchGenericMessage(message) ==
  /\ error' = Some(FetchFallbackMessage)
  /\ fredData' = null
  /\ summary' = null
  /\ loading' = FALSE
  /\ UNCHANGED << categoryBrowserKey, sidebarVars, navigatorVars >>

\* A catch block that only sets the error.
CatchKeepingData(message) ==
  /\ error' = Some(OrElse(message, FetchFallbackMessage))
  /\ loading' = FALSE
  /\ UNCHANGED << fredData, summary, categoryBrowserKey, sidebarVars,
                  navigatorVars >>

\* A catch block with no finally after it.
CatchWithoutFinally(message) ==
  /\ error' = Some(OrElse(message, FetchFallbackMessage))
  /\ fredData' = null
  /\ summary' = null
  /\ UNCHANGED << loading, categoryBrowserKey, sidebarVars, navigatorVars >>

\* A finally block that also resets the category browser.
CatchThenReset(message) ==
  /\ error' = Some(OrElse(message, FetchFallbackMessage))
  /\ fredData' = null
  /\ summary' = null
  /\ loading' = FALSE
  /\ categoryBrowserKey < MaxResets
  /\ resetCategoryBrowser

\* The catch and finally blocks of handleSubmit.
CatchAndFinally(message) ==
  /\ error' = Some(OrElse(message, FetchFallbackMessage))
  /\ fredData' = null
  /\ summary' = null
  /\ loading' = FALSE
  /\ UNCHANGED << categoryBrowserKey, sidebarVars, navigatorVars >>

\* A pipeline that reads the identifier from the input when the response
\* arrives instead of keeping the one it was submitted with.
FetchFulfilledForCurrentInput ==
  \E i \in 1..Len(requests) :
    /\ requests[i].op = "fetch"
    /\ \E x \in FetchExchanges(NormalizedId(seriesId)) :
         LET r == fetchFREDData(x)
         IN  /\ ~r.rejected
             /\ fredData' = r.value
             /\ UNCHANGED script
             /\ requests' = [requests EXCEPT
                               ![i] = SummarizeRequest(NormalizedId(seriesId),
                                                       Val(r.value))]
    /\ UNCHANGED << seriesId, loading, error, summary, activeTab,
                    categoryBrowserKey, sidebarVars, navigatorVars >>

\* fetchFREDData resolved: the data is stored and summarizeData is called.
FetchFulfilled ==
  \E i \in 1..Len(requests) :
    /\ requests[i].op = "fetch"
    /\ \E x \in FetchExchanges(requests[i].id) :
         LET r == fetchFREDData(x)
         IN  /\ ~r.rejected
             /\ fredData' = r.value
             /\ UNCHANGED script
             /\ requests' = [requests EXCEPT
                               ![i] = SummarizeRequest(requests[i].id, Val(r.value))]
    /\ UNCHANGED << seriesId, loading, error, summary, activeTab,
                    categoryBrowserKey, sidebarVars, navigatorVars >>

\* fetchFREDData rejected.
FetchRejected ==
  \E i \in 1..Len(requests) :
    /\ requests[i].op = "fetch"
    /\ \E x \in FetchExchanges(requests[i].id) :
         LET r == fetchFREDData(x)
         IN  /\ r.rejected
             /\ CatchAndFinally(r.message)
    /\ UNCHANGED script
    /\ requests' = Remove(requests, i)
    /\ UNCHANGED << seriesId, activeTab >>

\* summarizeData resolved: the rest of the try block, then finally.
SummarizeFulfilled ==
  \E i \in 1..Len(requests) :
    /\ requests[i].op = "summarize"
    /\ categoryBrowserKey < MaxResets
    /\ \E x \in SummarizeExchanges :
         LET r == summarizeData(x)
         IN  /\ ~r.rejected
             /\ summary' = r.value
    /\ resetCategoryBrowser
    /\ activeTab' = "main"
    /\ loading' = FALSE
    /\ UNCHANGED script
    /\ requests' = Remove(requests, i)
    /\ UNCHANGED << seriesId, error, fredData >>

\* summarizeData rejected.
SummarizeRejected ==
  \E i \in 1..Len(requests) :
    /\ requests[i].op = "summarize"
    /\ \E x \in SummarizeExchanges :
         LET r == summarizeData(x)
         IN  /\ r.rejected
             /\ CatchAndFinally(r.message)
    /\ UNCHANGED script
    /\ requests' = Remove(requests, i)
    /\ UNCHANGED << seriesId, activeTab >>

\* A tab button that also resets the category browser.
selectMainTabResetting ==
  /\ ~IsNull(fredData)
  /\ categoryBrowserKey < MaxResets
  /\ activeTab' = "main"
  /\ resetCategoryBrowser
  /\ UNCHANGED << seriesId, loading, error, fredData, summary, requests,
                  script >>

\* The Main Graph tab button, rendered with the data section.
selectMainTab ==
  /\ ~IsNull(fredData)
  /\ activeTab' = "main"
  /\ UNCHANGED << seriesId, loading, error, fredData, summary,
                  categoryBrowserKey, requests, script, sidebarVars, navigatorVars >>

\* ---------------------------------------------------- CategoryBrowser

CategoryListFallback == "Failed to load categories"
SeriesListFallback == "Failed to load series"

\* A lookup that takes the first entry of the list whatever its id.
CategoryNameOfFirst(list, categoryId) ==
  IF list = <<>> THEN null
  ELSE IF Truthy(list[1].name) THEN Some(list[1].name) ELSE null

\* categories.find((cat) => cat.id === categoryId)?.name || null
CategoryNameOf(list, categoryId) ==
  LET hits == {i \in 1..Len(list) : list[i].id = categoryId}
  IN  IF hits = {} THEN null
      ELSE LET first == CHOOSE i \in hits : \A j \in hits : i <= j
           IN  IF Truthy(list[first].name) THEN Some(list[first].name) ELSE null

PageRequest(categoryId, categoryName, term) ==
  [categoryId |-> categoryId, categoryName |-> categoryName,
   q |-> QueryOf(term)]

Outstanding == BagCardinality(pageRequests) + Cardinality(abandoned)

\* The cards of CategoryGrid are rendered: no error, not loading, a
\* non-empty list, no category selected.
GridShowsCards ==
  /\ BrowserMounted
  /\ IsNull(browserError)
  /\ ~browserLoading
  /\ IsNull(selectedCategoryId)
  /\ categories # <<>>

\* A load effect that asks again after a failure.
CategoriesSettledRetrying(exchanges) ==
  /\ listPending
  /\ \E x \in exchanges :
       LET r == fetchCategories(x)
       IN  IF r.rejected
           THEN /\ browserError' = Some(OrElse(r.message, CategoryListFallback))
                /\ categories' = <<>>
                /\ listPending' = TRUE
           ELSE /\ categories' = IF Val(r.value).hasCategories
                                 THEN Val(r.value).categories ELSE <<>>
                /\ listPending' = FALSE
                /\ UNCHANGED browserError
  /\ browserLoading' = FALSE
  /\ UNCHANGED << appVars, script, sidebarVars, selectedCategoryId,
                  selectedCategoryName, detailVars, pageRequests, abandoned >>

\* A load effect that takes a body without `categories` for a failure.
CategoriesSettledStrict(exchanges) ==
  /\ listPending
  /\ \E x \in exchanges :
       LET r == fetchCategories(x)
       IN  IF r.rejected \/ ~Val(r.value).hasCategories
           THEN /\ browserError' = Some(OrElse(r.message, CategoryListFallback))
                /\ categories' = <<>>
           ELSE /\ categories' = Val(r.value).categories
                /\ UNCHANGED browserError
  /\ browserLoading' = FALSE
  /\ listPending' = FALSE
  /\ UNCHANGED << appVars, script, sidebarVars, selectedCategoryId,
                  selectedCategoryName, detailVars, pageRequests, abandoned >>

\* The mount effect's fetchCategories call completes with one of the given
\* exchanges.
CategoriesSettledFrom(exchanges) ==
  /\ listPending
  /\ \E x \in exchanges :
       LET r == fetchCategories(x)
       IN  IF r.rejected
           THEN /\ browserError' = Some(OrElse(r.message, CategoryListFallback))
                /\ categories' = <<>>
           ELSE /\ categories' = IF Val(r.value).hasCategories
                                 THEN Val(r.value).categories ELSE <<>>
                /\ UNCHANGED browserError
  /\ browserLoading' = FALSE
  /\ listPending' = FALSE
  /\ UNCHANGED << appVars, script, sidebarVars, selectedCategoryId,
                  selectedCategoryName, detailVars, pageRequests, abandoned >>

CategoriesSettled == CategoriesSettledFrom(CategoriesExchanges)

\* A selection that runs the load effect again, as if the effect depended
\* on the selected category.
selectCategoryReloading(categoryId) ==
  /\ LET name == CategoryNameOf(categories, categoryId)
     IN  /\ selectedCategoryName' = name
         /\ selectedCategoryId' = Some(categoryId)
         /\ displayedCategoryName' = IF IsNull(name) THEN "" ELSE Val(name)
         /\ pageRequests' = pageRequests (+) SetToBag({PageRequest(categoryId, name, "")})
  /\ series' = <<>>
  /\ detailLoading' = TRUE
  /\ detailError' = null
  /\ searchTerm' = ""
  /\ totalCount' = 0
  /\ browserLoading' = TRUE
  /\ listPending' = TRUE
  /\ UNCHANGED << appVars, script, sidebarVars, categories, browserError, abandoned >>

\* handleCategoryClick(categoryId): CategoryDetail mounts and its effect
\* calls fetchCategorySeries(categoryId, null).
selectCategory(categoryId) ==
  /\ LET name == CategoryNameOf(categories, categoryId)
     IN  /\ selectedCategoryName' = name
         /\ selectedCategoryId' = Some(categoryId)
         /\ displayedCategoryName' = IF IsNull(name) THEN "" ELSE Val(name)
         /\ pageRequests' = pageRequests (+) SetToBag({PageRequest(categoryId, name, "")})
  /\ series' = <<>>
  /\ detailLoading' = TRUE
  /\ detailError' = null
  /\ searchTerm' = ""
  /\ totalCount' = 0
  /\ UNCHANGED << appVars, script, sidebarVars, categories, browserLoading,
                  browserError, listPending, abandoned >>

\* A grid whose cards for the known categories can be clicked whatever the
\* state of the list request.
handleCategoryClickBeforeLoad ==
  /\ BrowserMounted
  /\ IsNull(selectedCategoryId)
  /\ Outstanding < MaxPageReqs
  /\ \E k \in 1..Len(CategoryCollection) :
       selectCategory(CategoryCollection[k].id)

\* A category card is clicked.
handleCategoryClick ==
  /\ GridShowsCards
  /\ Outstanding < MaxPageReqs
  /\ \E k \in 1..Len(categories) : selectCategory(categories[k].id)

\* A return to the grid that leaves the search term and the page where they
\* are, as if CategoryDetail stayed mounted behind the grid.
handleBackKeepingPage ==
  /\ DetailMounted
  /\ selectedCategoryId' = null
  /\ selectedCategoryName' = null
  /\ UNCHANGED << appVars, script, sidebarVars, categories, browserLoading,
                  browserError, listPending, detailVars, pageRequests,
                  abandoned >>

\* Back to Categories: CategoryDetail unmounts.
handleBack ==
  /\ DetailMounted
  /\ selectedCategoryId' = null
  /\ selectedCategoryName' = null
  /\ NoDetail
  /\ UNCHANGED << appVars, script, sidebarVars, categories, browserLoading,
                  browserError, listPending >>

\* ----------------------------------------------------- CategoryDetail

\* A search box whose change does not run the effect again, as if
\* searchTerm were missing from the effect's dependencies.
handleSearchChangeWithoutFetch ==
  /\ DetailMounted
  /\ Outstanding < MaxPageReqs
  /\ \E term \in SearchTerms \ {searchTerm} : searchTerm' = term
  /\ UNCHANGED << appVars, script, sidebarVars, browserVars, series, detailLoading,
                  detailError, displayedCategoryName, totalCount,
                  pageRequests, abandoned >>

\* The search box changes: the effect runs again for the new term.
handleSearchChange ==
  /\ DetailMounted
  /\ Outstanding < MaxPageReqs
  /\ \E term \in SearchTerms \ {searchTerm} :
       /\ searchTerm' = term
       /\ pageRequests' = pageRequests (+) SetToBag(
            {PageRequest(Val(selectedCategoryId), selectedCategoryName, term)})
  /\ detailLoading' = TRUE
  /\ detailError' = null
  /\ UNCHANGED << appVars, script, sidebarVars, browserVars, series,
                  displayedCategoryName, totalCount, abandoned >>

\* A header that shows the stored name only.
HeaderNameWithoutFallback == displayedCategoryName

\* The header of CategoryDetail: {displayedCategoryName || categoryId}
HeaderName ==
  IF Truthy(displayedCategoryName) THEN displayedCategoryName
  ELSE Val(selectedCategoryId)

\* response.series || [], response.total_count || 0 and the truthiness test
\* of response.category_name: a field the body lacks is undefined.
SeriesOf(body) == IF "series" \in DOMAIN body THEN body.series ELSE <<>>
TotalCountOf(body) ==
  IF "total_count" \in DOMAIN body THEN body.total_count ELSE 0
CategoryNameIn(body) ==
  IF "category_name" \in DOMAIN body THEN body.category_name ELSE ""

\* A loadSeries whose failure closes the Detail view instead of reporting
\* inside it.
PageSettledLeavingDetail ==
  \E req \in BagToSet(pageRequests) :
    \E x \in CategorySeriesExchanges(req.categoryId, req.q) :
      LET r == fetchCategorySeries(x)
      IN  IF r.rejected
          THEN /\ selectedCategoryId' = null
               /\ selectedCategoryName' = null
               /\ NoDetail
               /\ UNCHANGED << appVars, script, sidebarVars, categories,
                               browserLoading, browserError, listPending >>
          ELSE /\ pageRequests' = pageRequests (-) SetToBag({req})
               /\ series' = SeriesOf(Val(r.value))
               /\ totalCount' = TotalCountOf(Val(r.value))
               /\ displayedCategoryName' =
                    IF ~Truthy(CategoryNameIn(Val(r.value)))
                    THEN displayedCategoryName
                    ELSE IF ~IsNull(req.categoryName)
                    THEN Val(req.categoryName)
                    ELSE CategoryNameIn(Val(r.value))
               /\ detailLoading' = FALSE
               /\ UNCHANGED << searchTerm, detailError, appVars, script, sidebarVars,
                               browserVars, abandoned >>

\* The ids and q parameters a page can be requested with.
PageCategories == {"employment", "inflation", "gdp", "unlisted"}
PageQueries == {null} \cup { Some(term) : term \in SearchTerms }

\* The answers the gateway may give, by category id and q parameter.
CategorySeriesAnswers ==
  [categoryId \in PageCategories, q \in PageQueries |->
     CategorySeriesExchanges(categoryId, q)]

\* A loadSeries invocation resumes after its await, the gateway having
\* given one of answers[categoryId, q].
PageSettledFrom(answers) ==
  \E req \in BagToSet(pageRequests) :
        /\ pageRequests' = pageRequests (-) SetToBag({req})
        /\ \E x \in answers[req.categoryId, req.q] :
             LET r == fetchCategorySeries(x)
             IN  IF r.rejected
                 THEN /\ detailError' = Some(OrElse(r.message, SeriesListFallback))
                      /\ series' = <<>>
                      /\ totalCount' = 0
                      /\ detailLoading' = FALSE
                      /\ UNCHANGED << searchTerm, displayedCategoryName >>
                 ELSE /\ series' = SeriesOf(Val(r.value))
                      /\ totalCount' = TotalCountOf(Val(r.value))
                      /\ displayedCategoryName' =
                           IF ~Truthy(CategoryNameIn(Val(r.value)))
                           THEN displayedCategoryName
                           ELSE IF ~IsNull(req.categoryName)
                           THEN Val(req.categoryName)
                           ELSE CategoryNameIn(Val(r.value))
                      /\ detailLoading' = FALSE
                      /\ UNCHANGED << searchTerm, detailError >>
        /\ UNCHANGED << appVars, script, sidebarVars, browserVars, abandoned >>

PageSettled == PageSettledFrom(CategorySeriesAnswers)

\* A loadSeries invocation of an unmounted CategoryDetail resumes: React
\* drops the state updates of a component that is no longer mounted.
AbandonedSettled ==
  \E req \in abandoned :
    /\ abandoned' = abandoned \ {req}
    /\ UNCHANGED << appVars, script, sidebarVars, browserVars, detailVars,
                    pageRequests >>

\* A selection that also triggers the fetch (the call left commented out
\* in handleSeriesSelect).
handleSeriesSelectThenSubmit ==
  /\ DetailMounted
  /\ ~detailLoading
  /\ IsNull(detailError)
  /\ \E k \in 1..Len(series) :
       /\ seriesId' = series[k]
       /\ UNCHANGED script
       /\ requests' = Append(requests, FetchRequest(NormalizedId(series[k])))
  /\ EnterLoading
  /\ UNCHANGED << activeTab, categoryBrowserKey, sidebarVars, navigatorVars >>

\* Select Series on a SeriesCard: handleSeriesSelect of App, through the
\* onSeriesSelect props.
handleSeriesSelect ==
  /\ DetailMounted
  /\ ~detailLoading
  /\ IsNull(detailError)
  /\ \E k \in 1..Len(series) : seriesId' = series[k]
  /\ UNCHANGED << loading, error, fredData, summary, activeTab,
                  categoryBrowserKey, requests, script, sidebarVars, navigatorVars >>

\* --------------------------------------------------- the specification

\* What localStorage may hold from an earlier visit.
StoredValues == {null, Some("true"), Some("false")}

\* The page after its first render and effects.
Init ==
  /\ seriesId = <<>>
  /\ loading = FALSE
  /\ error = null
  /\ fredData = null
  /\ summary = null
  /\ activeTab = "main"
  /\ categoryBrowserKey = 0
  /\ requests = <<>>
  /\ \E a \in StoredValues, b \in StoredValues, c \in StoredValues :
       LET open == StoredFlag(a, TRUE)
           cats == StoredFlag(b, TRUE)
           analytics == StoredFlag(c, FALSE)
       IN  /\ sidebarOpen = open
           /\ categoriesExpanded = cats
           /\ analyticsExpanded = analytics
           /\ localStorage = Persisted(open, cats, analytics)
           /\ browserLoading = (open /\ cats)
           /\ listPending = (open /\ cats)
  /\ categories = <<>>
  /\ selectedCategoryId = null
  /\ selectedCategoryName = null
  /\ browserError = null
  /\ series = <<>>
  /\ detailLoading = FALSE
  /\ detailError = null
  /\ searchTerm = ""
  /\ displayedCategoryName = ""
  /\ totalCount = 0
  /\ pageRequests = EmptyBag
  /\ abandoned = {}
  /\ script = NotRun

Next ==
  \/ handleInputChange
  \/ handleSubmit
  \/ FetchFulfilled
  \/ FetchRejected
  \/ SummarizeFulfilled
  \/ SummarizeRejected
  \/ selectMainTab
  \/ handleSeriesSelect
  \/ toggleSidebar
  \/ toggleCategories
  \/ toggleAnalytics
  \/ CategoriesSettled
  \/ handleCategoryClick
  \/ handleBack
  \/ handleSearchChange
  \/ PageSettled
  \/ AbandonedSettled

Spec == Init /\ [][Next]_vars

\* ------------------------------------------- CategoryBrowser on its own

\* CategoryBrowser and CategoryDetail as components: the category list may
\* hold an entry without a name, and handleCategoryClick is taken as a
\* function of its argument, which need not be an id of the list (the cards
\* of CategoryGrid pass listed ids only).

SparseCollection ==
  << Category("employment", "Employment"), Category("gdp", "") >>

SparseCategoriesExchanges ==
  { Exchange(null, TRUE, 200, TRUE, "", Some(CategoryBody(TRUE, SparseCollection))),
    Exchange(null, FALSE, 500, TRUE, "Failed to load", null) }

HandlerIds == {"employment", "gdp", "unlisted"}

SparseCategoriesSettled == CategoriesSettledFrom(SparseCategoriesExchanges)

handleCategoryClickWith ==
  /\ BrowserMounted
  /\ ~browserLoading
  /\ IsNull(browserError)
  /\ IsNull(selectedCategoryId)
  /\ Outstanding < MaxPageReqs
  /\ \E categoryId \in HandlerIds : selectCategory(categoryId)

\* A handleBack that starts the load of the category list again.
onBackReloading ==
  /\ BrowserMounted
  /\ ~browserLoading
  /\ IsNull(browserError)
  /\ selectedCategoryId' = null
  /\ selectedCategoryName' = null
  /\ categories' = <<>>
  /\ browserLoading' = TRUE
  /\ listPending' = TRUE
  /\ IF DetailMounted THEN NoDetail
     ELSE UNCHANGED << detailVars, pageRequests, abandoned >>
  /\ UNCHANGED << appVars, script, sidebarVars, browserError >>

\* handleBack as a function, called in either view: the two state updates
\* are no change in the grid, and CategoryDetail unmounts if it was shown.
onBack ==
  /\ BrowserMounted
  /\ ~browserLoading
  /\ IsNull(browserError)
  /\ selectedCategoryId' = null
  /\ selectedCategoryName' = null
  /\ IF DetailMounted THEN NoDetail
     ELSE UNCHANGED << detailVars, pageRequests, abandoned >>
  /\ UNCHANGED << appVars, script, sidebarVars, categories, browserLoading,
                  browserError, listPending >>

BrowserInit == Init /\ sidebarOpen /\ categoriesExpanded /\ ~analyticsExpanded

BrowserNext ==
  \/ SparseCategoriesSettled
  \/ handleCategoryClickWith
  \/ onBack
  \/ handleSearchChange
  \/ PageSettled
  \/ AbandonedSettled

BrowserSpec == BrowserInit /\ [][BrowserNext]_vars

\* --------------------------------------------------- DataGraph on its own

\* The chart of DataGraph as a function of the SeriesData in fredData.

\* A date string 'YYYY-MM-DD' as << year, month, day >>.
ObservationDates == { <<2023, 12, 1>>, <<2024, 1, 1>>, <<2024, 1, 2>> }

\* new Date(date) as a number: the days the calendar date stands for, on a
\* scale that keeps the order of dates.
DateNumber(date) == (date[1] * 12 + date[2]) * 31 + date[3]

\* A value is a number or absent.
ObservationValues == { null, Some(0), Some(5) }

Observation(date, value) == [date |-> date, value |-> value]

Observations ==
  { Observation(d, v) : d \in ObservationDates, v \in ObservationValues }

RECURSIVE ObservationLists(_)
ObservationLists(n) ==
  IF n = 0 THEN { <<>> }
  ELSE LET shorter == ObservationLists(n - 1)
       IN  shorter \cup { Append(l, o) : l \in {s \in shorter : Len(s) = n - 1},
                                         o \in Observations }

\* The body of a successful fetch: `observations` may be missing.
ObservedSeries(hasObservations, observations) ==
  [series_id |-> <<"G">>, observation_count |-> Len(observations),
   hasObservations |-> hasObservations, observations |-> observations]

GatewaySeries ==
  { ObservedSeries(TRUE, l) : l \in ObservationLists(MaxObs) }
    \cup { ObservedSeries(FALSE, <<>>) }

\* One step of the sort: o goes behind every element that does not compare
\* greater (new Date(a.date) - new Date(b.date) <= 0), which keeps the
\* sort stable.
RECURSIVE InsertByDate(_, _)
InsertByDate(sorted, o) ==
  IF sorted = <<>> THEN << o >>
  ELSE LET last == sorted[Len(sorted)]
       IN  IF DateNumber(last.date) <= DateNumber(o.date)
           THEN Append(sorted, o)
           ELSE Append(InsertByDate(SubSeq(sorted, 1, Len(sorted) - 1), o), last)

\* A chart drawn in the order of the gateway.
KeepGatewayOrder(observations) == observations

\* [...data.observations].sort((a, b) => new Date(a.date) - new Date(b.date))
RECURSIVE sortedObservations(_)
sortedObservations(observations) ==
  IF observations = <<>> THEN <<>>
  ELSE InsertByDate(
         sortedObservations(SubSeq(observations, 1, Len(observations) - 1)),
         observations[Len(observations)])

\* A chart that draws an absent value as zero.
ValueOrZero(obs) == IF IsNull(obs.value) THEN Some(0) ELSE obs.value

\* obs => obs.value
ValueOf(obs) == obs.value

\* !data || !data.observations || data.observations.length === 0
NoObservations(data) ==
  \/ IsNull(data)
  \/ ~Val(data).hasObservations
  \/ Len(Val(data).observations) = 0

Chart(observations) ==
  LET sorted == sortedObservations(observations)
  IN  [labels |-> [i \in 1..Len(sorted) |-> sorted[i].date],
       values |-> [i \in 1..Len(sorted) |-> ValueOf(sorted[i])]]

\* A chartData without the guard for an empty observation set.
chartDataOfAnything(data) ==
  IF IsNull(data) THEN null ELSE Some(Chart(Val(data).observations))

\* The chartData memo of DataGraph.
chartData(data) ==
  IF NoObservations(data) THEN null
  ELSE Some(Chart(Val(data).observations))

\* What DataGraph renders for its data prop.
DataGraphRenders(data) ==
  IF NoObservations(data) THEN "data-graph-empty"
  ELSE IF IsNull(chartData(data)) THEN "data-graph-empty"
  ELSE "Line"

\* What the tab panel of App renders below the series info.
TabPanelRenders ==
  IF IsNull(fredData) \/ activeTab # "main" THEN "nothing"
  ELSE IF Val(fredData).hasObservations /\ Len(Val(fredData).observations) > 0
       THEN DataGraphRenders(fredData)
       ELSE "no-data-message"

\* setFredData(data) with the body of a successful fetch; the submission
\* that fetched it began with setFredData(null).
DataFetched ==
  /\ IsNull(fredData)
  /\ \E data \in GatewaySeries : fredData' = Some(data)
  /\ UNCHANGED << seriesId, loading, error, summary, activeTab,
                  categoryBrowserKey, requests, script, sidebarVars, navigatorVars >>

\* setFredData(null) at the start of the next submission.
DataCleared ==
  /\ ~IsNull(fredData)
  /\ fredData' = null
  /\ UNCHANGED << seriesId, loading, error, summary, activeTab,
                  categoryBrowserKey, requests, script, sidebarVars, navigatorVars >>

GraphInit == Init /\ sidebarOpen /\ categoriesExpanded /\ ~analyticsExpanded

GraphNext == DataFetched \/ DataCleared

GraphSpec == GraphInit /\ [][GraphNext]_vars

\* ------------------------------------------- the gateway client on its own

\* The four operations of api.js, each called once with every answer the
\* gateway can give.

GatewayOperations ==
  { "fetchFREDData", "summarizeData", "fetchCategories", "fetchCategorySeries" }

\* The message of the error fetch() rejects with.
TransportFailures == { "Network error", "Failed to fetch" }

ErrorStatuses == { 400, 404, 500 }

\* The `detail` of an error body, "" when the body has none.
ErrorDetails == { "", "Series ID not found", "Failed to generate summary" }

\* An object body of summarize: hasSummary tells whether it has a `summary`
\* field, text is the value of the field.
SummaryObject(hasSummary, text) ==
  [isString |-> FALSE, text |-> text, hasSummary |-> hasSummary]

SuccessBodies(op) ==
  IF op = "fetchFREDData" THEN { SeriesData(<<"G">>, ObservationCount(<<"G">>)) }
  ELSE IF op = "summarizeData"
  THEN { SummaryBody(TRUE, "Summary"), SummaryBody(TRUE, ""),
         SummaryObject(TRUE, "Summary"), SummaryObject(TRUE, ""),
         SummaryObject(FALSE, "") }
  ELSE IF op = "fetchCategories"
  THEN { CategoryBody(TRUE, CategoryCollection), CategoryBody(FALSE, <<>>) }
  ELSE { PageBody(CatalogName("employment"),
                  Len(CatalogSeries("employment", null)),
                  CatalogSeries("employment", null)) }

GatewayExchanges(op) ==
  { Exchange(Some(m), FALSE, 0, FALSE, "", null) : m \in TransportFailures }
    \cup { Exchange(null, FALSE, s, TRUE, d, null) :
             s \in ErrorStatuses, d \in ErrorDetails }
    \cup { Exchange(null, FALSE, s, FALSE, "", null) : s \in ErrorStatuses }
    \cup { Exchange(null, TRUE, 200, TRUE, "", Some(b)) : b \in SuccessBodies(op) }

\* The promise an operation returns for the exchange x.
Settlement(op, x) ==
  IF op = "fetchFREDData" THEN fetchFREDData(x)
  ELSE IF op = "summarizeData" THEN summarizeData(x)
  ELSE IF op = "fetchCategories" THEN fetchCategories(x)
  ELSE fetchCategorySeries(x)

GatewayCall(op, x, settled) == [op |-> op, exchange |-> x, settled |-> settled]

\* A caller invokes an operation; x is what the gateway will answer.
Invoke ==
  /\ requests = <<>>
  /\ \E op \in GatewayOperations :
       \E x \in GatewayExchanges(op) :
         /\ requests' = << GatewayCall(op, x, null) >>
         /\ UNCHANGED script
  /\ UNCHANGED << seriesId, loading, error, fredData, summary, activeTab,
                  categoryBrowserKey, sidebarVars, navigatorVars >>

\* The operation runs to its return or its throw.
Settle ==
  /\ requests # <<>>
  /\ IsNull(requests[1].settled)
  /\ UNCHANGED script
  /\ requests' =
       << GatewayCall(requests[1].op, requests[1].exchange,
                      Some(Settlement(requests[1].op, requests[1].exchange))) >>
  /\ UNCHANGED << seriesId, loading, error, fredData, summary, activeTab,
                  categoryBrowserKey, sidebarVars, navigatorVars >>

\* The caller has taken the outcome.
Collect ==
  /\ requests # <<>>
  /\ ~IsNull(requests[1].settled)
  /\ UNCHANGED script
  /\ requests' = <<>>
  /\ UNCHANGED << seriesId, loading, error, fredData, summary, activeTab,
                  categoryBrowserKey, sidebarVars, navigatorVars >>

ClientInit == Init /\ sidebarOpen /\ categoriesExpanded /\ ~analyticsExpanded

ClientNext == Invoke \/ Settle \/ Collect

ClientSpec == ClientInit /\ [][ClientNext]_vars

\* -------------------------------------------------- Sidebar on its own

\* The user removes stored keys (site data cleared, wholly or in part), as
\* before a first visit; the page that is open does not notice.
StorageCleared ==
  /\ \E a \in BOOLEAN, b \in BOOLEAN, c \in BOOLEAN :
       /\ a \/ b \/ c
       /\ localStorage' =
            Storage(IF a THEN null ELSE localStorage.sidebarOpen,
                    IF b THEN null ELSE localStorage.categoriesExpanded,
                    IF c THEN null ELSE localStorage.analyticsExpanded)
  /\ UNCHANGED << appVars, script, sidebarOpen, categoriesExpanded, analyticsExpanded,
                  navigatorVars >>

\* The page is loaded again: App starts over and a new Sidebar mounts from
\* what localStorage holds.
Reload ==
  /\ seriesId' = <<>>
  /\ loading' = FALSE
  /\ error' = null
  /\ fredData' = null
  /\ summary' = null
  /\ activeTab' = "main"
  /\ categoryBrowserKey' = 0
  /\ UNCHANGED script
  /\ requests' = <<>>
  /\ MountSidebar

\* A first visit: nothing stored, the Sidebar in its default layout.
SidebarInit == Init /\ sidebarOpen /\ categoriesExpanded /\ ~analyticsExpanded

\* The Sidebar with the CategoryBrowser it renders.
SidebarNext ==
  \/ toggleSidebar
  \/ toggleCategories
  \/ toggleAnalytics
  \/ CategoriesSettled
  \/ StorageCleared
  \/ Reload

SidebarSpec == SidebarInit /\ [][SidebarNext]_vars

\* ------------------------------------- the Navigator and incomplete bodies

\* The gateway answers 200 with a body that lacks the list: a category
\* response without `categories`, a category page without `series` and
\* `total_count`.

IncompleteList ==
  Exchange(null, TRUE, 200, TRUE, "", Some(CategoryBody(FALSE, <<>>)))

IncompletePage ==
  [categoryId \in PageCategories, q \in PageQueries |->
     { Exchange(null, TRUE, 200, TRUE, "",
                Some([category_name |-> CatalogName(categoryId)])) }]

LooseCategoriesExchanges ==
  { Exchange(null, TRUE, 200, TRUE, "", Some(CategoryBody(TRUE, CategoryCollection))),
    IncompleteList,
    Exchange(null, FALSE, 500, FALSE, "", null) }

LoosePageExchanges ==
  [categoryId \in PageCategories, q \in PageQueries |->
     CategorySeriesExchanges(categoryId, q) \cup IncompletePage[categoryId, q]]

LooseCategoriesSettled == CategoriesSettledFrom(LooseCategoriesExchanges)

LoosePageSettled == PageSettledFrom(LoosePageExchanges)

LooseNext ==
  \/ LooseCategoriesSettled
  \/ handleCategoryClick
  \/ handleBack
  \/ handleSearchChange
  \/ LoosePageSettled
  \/ AbandonedSettled

LooseSpec == BrowserInit /\ [][LooseNext]_vars

\* ---------------------------------------- the Navigator and empty pages

\* The gateway may answer with a page of no series, for the unfiltered
\* request of a category without series and for a search without a match.
EmptyPage ==
  [categoryId \in PageCategories, q \in PageQueries |->
     { Exchange(null, TRUE, 200, TRUE, "",
                Some(PageBody(CatalogName(categoryId), 0, <<>>))) }]

EmptyPageExchanges ==
  [categoryId \in PageCategories, q \in PageQueries |->
     CategorySeriesExchanges(categoryId, q) \cup EmptyPage[categoryId, q]]

EmptyPageSettled == PageSettledFrom(EmptyPageExchanges)

NoSeriesMessage == "No series available in this category"

\* `No series found matching "${searchTerm}"`
NoMatchMessage(term) == << "No series found matching", term >>

\* An empty state that shows one message whatever the search term.
SeriesListRendersOneMessage ==
  IF detailLoading THEN << "Loading series..." >>
  ELSE IF ~IsNull(detailError) THEN << "Error:", Val(detailError) >>
  ELSE IF Len(series) = 0 THEN << NoSeriesMessage >>
  ELSE << "SeriesCard" >>

\* What CategoryDetail renders below the search input.
SeriesListRenders ==
  IF detailLoading THEN << "Loading series..." >>
  ELSE IF ~IsNull(detailError) THEN << "Error:", Val(detailError) >>
  ELSE IF Len(series) = 0
       THEN IF Truthy(searchTerm) THEN NoMatchMessage(searchTerm)
            ELSE << NoSeriesMessage >>
  ELSE << "SeriesCard" >>

EmptyNext ==
  \/ CategoriesSettled
  \/ handleCategoryClick
  \/ handleBack
  \/ handleSearchChange
  \/ EmptyPageSettled
  \/ AbandonedSettled

EmptySpec == BrowserInit /\ [][EmptyNext]_vars

\* ------------------------------------------ run_integration_tests.sh

\* The script runs under `set -e`: a command that fails outside of an `if`
\* condition ends the script at once with the status of that command.

\* The exit statuses of pytest: all passed, tests failed, interrupted, no
\* test collected.
PytestStatuses == { 0, 1, 2, 5 }

echo(line) == Append(script.output, line)

\* The script has ended with the given status.
Exited(status) == [script EXCEPT !.pc = "exited", !.exit = Some(status)]

ScriptFrame == UNCHANGED << appVars, sidebarVars, navigatorVars >>

\* docker-compose up -d; sleep 10; timeout=60; elapsed=0
ComposeUp ==
  /\ script.pc = "compose-up"
  /\ \/ script' = [script EXCEPT !.pc = "wait-backend", !.services = TRUE,
                                 !.elapsed = 0,
                                 !.output = echo("Starting services")]
     \/ script' = [Exited(1) EXCEPT !.output = echo("Starting services")]
  /\ ScriptFrame

\* One turn of a wait loop: the service answers curl, or the script sleeps
\* two seconds; the loop ends when elapsed reaches timeout.
WaitLoop(next, ready, waiting) ==
  IF script.elapsed < timeout
  THEN { [script EXCEPT !.pc = next, !.output = echo(ready)],
         [script EXCEPT !.elapsed = script.elapsed + 2,
                        !.output = echo(waiting)] }
  ELSE { [script EXCEPT !.pc = next] }

\* if [ $elapsed -ge $timeout ]: logs, docker-compose down, exit 1.
ReadyCheck(next, problem) ==
  IF script.elapsed >= timeout
  THEN [Exited(1) EXCEPT !.services = FALSE, !.output = echo(problem)]
  ELSE [script EXCEPT !.pc = next, !.elapsed = 0]

WaitForBackend ==
  /\ script.pc = "wait-backend"
  /\ script' \in WaitLoop("check-backend", "Backend is ready!",
                          "Waiting for backend...")
  /\ ScriptFrame

CheckBackend ==
  /\ script.pc = "check-backend"
  /\ script' = ReadyCheck("wait-frontend",
                          "ERROR: Backend did not become ready in time")
  /\ ScriptFrame

WaitForFrontend ==
  /\ script.pc = "wait-frontend"
  /\ script' \in WaitLoop("check-frontend", "Frontend is ready!",
                          "Waiting for frontend...")
  /\ ScriptFrame

CheckFrontend ==
  /\ script.pc = "check-frontend"
  /\ script' = ReadyCheck("pytest",
                          "ERROR: Frontend did not become ready in time")
  /\ ScriptFrame

\* A script without `set -e`: the line after pytest is reached whatever the
\* status of pytest.
RunTestsThenGoOn ==
  /\ script.pc = "pytest"
  /\ \E status \in PytestStatuses :
       script' = [script EXCEPT !.pc = "compose-down",
                                !.TEST_EXIT_CODE = Some(status),
                                !.output = echo("Running integration tests")]
  /\ ScriptFrame

\* python -m pytest tests/ ...; TEST_EXIT_CODE=$?
RunTests ==
  /\ script.pc = "pytest"
  /\ \E status \in PytestStatuses :
       script' =
         IF status = 0
         THEN [script EXCEPT !.pc = "compose-down",
                             !.TEST_EXIT_CODE = Some(status),
                             !.output = echo("Running integration tests")]
         ELSE [Exited(status) EXCEPT !.output = echo("Running integration tests")]
  /\ ScriptFrame

\* echo "Stopping services..."; docker-compose down
ComposeDown ==
  /\ script.pc = "compose-down"
  /\ script' = [script EXCEPT !.pc = "exit", !.services = FALSE,
                              !.output = echo("Stopping services")]
  /\ ScriptFrame

\* exit $TEST_EXIT_CODE
ExitWithTestStatus ==
  /\ script.pc = "exit"
  /\ script' = Exited(Val(script.TEST_EXIT_CODE))
  /\ ScriptFrame

ScriptInit == Init /\ sidebarOpen /\ categoriesExpanded /\ ~analyticsExpanded

ScriptNext ==
  \/ ComposeUp
  \/ WaitForBackend
  \/ CheckBackend
  \/ WaitForFrontend
  \/ CheckFrontend
  \/ RunTests
  \/ ComposeDown
  \/ ExitWithTestStatus

ScriptSpec == ScriptInit /\ [][ScriptNext]_vars

\* ------------------------------------------------- vocabulary of the claims

\* The text is empty or consists of white space only.
IsBlank(s) == \A i \in 1..Len(s) : s[i] = " "

\* The identifier the contract prescribes for a non-blank text: what lies
\* between its first and its last non-blank character, in upper case.
ExpectedIdentifier(s) ==
  LET ink == {i \in 1..Len(s) : s[i] # " "}
      a == CHOOSE i \in ink : \A j \in ink : i <= j
      b == CHOOSE i \in ink : \A j \in ink : j <= i
  IN  [k \in 1..(b - a + 1) |->
         IF s[a + k - 1] = "g" THEN "G" ELSE s[a + k - 1]]

FetchesInFlight(reqs) ==
  Cardinality({i \in 1..Len(reqs) : reqs[i].op = "fetch"})

SummarizesInFlight(reqs) ==
  Cardinality({i \in 1..Len(reqs) : reqs[i].op = "summarize"})

\* Some gateway request of the Navigator is outstanding.
NavigatorCalls == << listPending, pageRequests, abandoned >>

\* A step in which a submission ends in its fetch stage.
FetchStageFailed ==
  \E i \in 1..Len(requests) :
    /\ requests[i].op = "fetch"
    /\ requests' = Remove(requests, i)

\* A step in which a submission ends in its summarize stage, the fetch stage
\* having produced SeriesData.
SummarizeStageEnded ==
  \E i \in 1..Len(requests) :
    /\ requests[i].op = "summarize"
    /\ requests' = Remove(requests, i)

\* The messages of the rejections the gateway client produces.
FetchFailureMessages(id) ==
  { fetchFREDData(x).message :
      x \in {y \in FetchExchanges(id) : fetchFREDData(y).rejected} }

SummarizeFailureMessages ==
  { summarizeData(x).message :
      x \in {y \in SummarizeExchanges : summarizeData(y).rejected} }

\* The Navigator shows the grid, with no active category and no search term.
NavigatorInGrid ==
  /\ IsNull(selectedCategoryId)
  /\ IsNull(selectedCategoryName)
  /\ searchTerm = ""

\* The Navigator holds nothing but its initial state.
NavigatorFresh ==
  /\ NavigatorInGrid
  /\ categories = <<>>
  /\ IsNull(browserError)
  /\ series = <<>>
  /\ IsNull(detailError)
  /\ pageRequests = EmptyBag
  /\ browserLoading = BrowserMounted
  /\ listPending = BrowserMounted

\* A step that discards the state of the Navigator: the category list it had
\* loaded is gone (going back to the grid keeps the list).
NavigatorReinitialized == categories # <<>> /\ categories' = <<>>

\* --------------------------------------------------------------- claims

\* C1: a submit of an empty or white-space-only input ends with the input
\* error, issues no gateway request (no fetch, no summarize, no category
\* request) and does not enter Loading.
C1_BlankSubmitIsInputError ==
  [][ (handleSubmit /\ IsBlank(seriesId)) =>
        /\ error' = Some(InputErrorMessage)
        /\ ~loading /\ ~loading'
        /\ requests' = requests
        /\ NavigatorCalls' = NavigatorCalls ]_vars

\* C1 witness: a white-space-only input was submitted.
C1_Witness ==
  /\ seriesId = <<" ">>
  /\ error = Some(InputErrorMessage)
  /\ ~loading
  /\ requests = <<>>

\* C2: a submit of a non-blank input issues exactly one fetch request, for
\* the trimmed input in upper case; no other step issues a fetch request.
C2_SubmitFetchesUppercasedId ==
  [][ /\ (handleSubmit /\ ~IsBlank(seriesId)) =>
           requests' = Append(requests, FetchRequest(ExpectedIdentifier(seriesId)))
      /\ FetchesInFlight(requests') > FetchesInFlight(requests) =>
           /\ ~loading /\ loading'
           /\ ~IsBlank(seriesId)
           /\ FetchesInFlight(requests') = FetchesInFlight(requests) + 1 ]_vars

\* C2 witness: " g" was submitted and "G" is being fetched.
C2_Witness ==
  /\ seriesId = <<" ", "g">>
  /\ loading
  /\ requests = << FetchRequest(<<"G">>) >>

\* C3: while Loading is true and the fetch of the submission has not resolved,
\* SeriesData, Summary and error are all null.
C3_ClearedWhileFetching ==
  (loading /\ FetchesInFlight(requests) > 0) =>
    (IsNull(fredData) /\ IsNull(summary) /\ IsNull(error))

\* C3 witness: a fetch is in flight after an earlier submission had succeeded.
C3_Witness ==
  /\ loading
  /\ FetchesInFlight(requests) = 1
  /\ categoryBrowserKey = 1
  /\ IsNull(fredData)

\* C4: when the fetch stage fails, error is the gateway's message, SeriesData
\* and Summary are null, Loading is false and no summarize request is issued.
C4_FetchFailure ==
  [][ FetchStageFailed =>
        /\ \E i \in 1..Len(requests) :
             /\ requests[i].op = "fetch"
             /\ ~IsNull(error')
             /\ Val(error') \in FetchFailureMessages(requests[i].id)
        /\ IsNull(fredData')
        /\ IsNull(summary')
        /\ ~loading'
        /\ SummarizesInFlight(requests') = SummarizesInFlight(requests) ]_vars

\* C4 witness: the gateway answered 404 with a detail.
C4_Witness ==
  /\ error = Some("Series ID not found")
  /\ ~loading
  /\ IsNull(fredData)
  /\ IsNull(summary)
  /\ requests = <<>>

C6_LoadingClearedWhenSettled ==
  (requests = <<>>) => ~loading

\* C6 witness: a submission went through both stages and settled.
C6_Witness ==
  /\ requests = <<>>
  /\ ~loading
  /\ ~IsNull(fredData)
  /\ ~IsNull(summary)

\* C7: at most one fetch/summarize pipeline is in flight, and one is in
\* flight exactly while Loading is true.
C7_SubmissionsSerialized ==
  /\ Len(requests) <= 1
  /\ loading <=> (Len(requests) = 1)

\* C7 witness: a pipeline is in its summarize stage.
C7_Witness ==
  /\ loading
  /\ SummarizesInFlight(requests) = 1

C9_Original_OnlySubmissionResets ==
  [][ NavigatorReinitialized => SummarizeStageEnded ]_vars

\* C9 amended: the Navigator is reinitialized only by a fully successful
\* submission or by collapsing the sidebar or its Categories section.
C9_ResetOnlyBySuccessOrCollapse ==
  [][ NavigatorReinitialized =>
        \/ SummarizeStageEnded /\ IsNull(error')
        \/ BrowserMounted /\ ~BrowserMounted' /\ UNCHANGED appVars ]_vars

\* C9 witness: the Navigator was unmounted by a toggle while a CategoryDetail
\* was waiting for its page, no submission having succeeded.
C9_Witness ==
  /\ categoryBrowserKey = 0
  /\ ~BrowserMounted
  /\ abandoned # {}

\* C10: a series selection copies the id into the pending input and changes
\* neither Loading, error, SeriesData, Summary nor the requests in flight.
C10_SelectionOnlyFillsInput ==
  [][ handleSeriesSelect =>
        /\ \E k \in 1..Len(series) : seriesId' = series[k]
        /\ UNCHANGED << loading, error, fredData, summary, requests >>
        /\ NavigatorCalls' = NavigatorCalls ]_vars

\* C10 witness: "GG" was selected and nothing was submitted.
C10_Witness ==
  /\ seriesId = <<"G", "G">>
  /\ ~loading
  /\ requests = <<>>
  /\ IsNull(error)

\* The page the gateway client yields for the exchange x is the one shown:
\* its series and total count without an error, or its message as the error
\* with an empty list.
ShowsPageOf(x) ==
  LET r == fetchCategorySeries(x)
  IN  IF r.rejected
      THEN /\ detailError = Some(r.message)
           /\ series = <<>>
           /\ totalCount = 0
      ELSE /\ IsNull(detailError)
           /\ series = Val(r.value).series
           /\ totalCount = Val(r.value).total_count

\* C11: in Detail, once every response has arrived, the page shown (series
\* list, total count, error) is a result of the last issued request, the one
\* for the active category and the current search term; a response to an
\* earlier request has not overwritten it.
C11_LastIssuedRequestWins ==
  (DetailMounted /\ pageRequests = EmptyBag) =>
    \E x \in CategorySeriesExchanges(Val(selectedCategoryId), QueryOf(searchTerm)) :
      ShowsPageOf(x)

\* C12: the Navigator shows the Detail view if and only if an active
\* categoryId is set.
C12_DetailIffActiveCategory ==
  DetailMounted <=> ~IsNull(selectedCategoryId)

\* C12 witness: the Detail view of "inflation" with its page loaded.
C12_Witness ==
  /\ DetailMounted
  /\ selectedCategoryId = Some("inflation")
  /\ ~detailLoading
  /\ series = << <<"G">> >>

\* A step that selects a category from the grid.
SelectCategoryStep == IsNull(selectedCategoryId) /\ ~IsNull(selectedCategoryId')

\* The page requests a step issues for the first time.
NewPageRequests == BagToSet(pageRequests') \ BagToSet(pageRequests)

\* C13: selecting a category from the grid moves the Navigator to Detail with
\* that category active, issues exactly one page request for (id, no search
\* term), and shows the name of the entry of the loaded list with that id;
\* the category list is not fetched again.
C13_SelectCategoryOpensDetail ==
  [][ SelectCategoryStep =>
        \E k \in 1..Len(categories) :
          /\ selectedCategoryId' = Some(categories[k].id)
          /\ DetailMounted'
          /\ searchTerm' = ""
          /\ displayedCategoryName' = categories[k].name
          /\ BagCardinality(pageRequests') = BagCardinality(pageRequests) + 1
          /\ \E r \in NewPageRequests :
               /\ NewPageRequests = {r}
               /\ r.categoryId = categories[k].id
               /\ IsNull(r.q)
          /\ listPending' = listPending ]_vars

\* C13 witness: "inflation" was selected and its page is being fetched.
C13_Witness ==
  /\ DetailMounted
  /\ selectedCategoryId = Some("inflation")
  /\ displayedCategoryName = "Inflation"
  /\ detailLoading
  /\ searchTerm = ""
  /\ BagCardinality(pageRequests) = 1

\* The active category is not an entry of the cached category list.
AbsentFromCache ==
  /\ DetailMounted
  /\ \A k \in 1..Len(categories) : categories[k].id # Val(selectedCategoryId)

\* The category names the gateway's pages carry for a category.
PageNames(categoryId) ==
  { Val(fetchCategorySeries(x).value).category_name :
      x \in {y \in CategorySeriesExchanges(categoryId, null) :
               ~fetchCategorySeries(y).rejected} }

\* A step in which a page response reaches the mounted CategoryDetail.
PageArrived ==
  BagCardinality(pageRequests') < BagCardinality(pageRequests)

BackStep ==
  /\ DetailMounted
  /\ IsNull(selectedCategoryId')
  /\ BrowserMounted'
  /\ categoryBrowserKey' = categoryBrowserKey

\* C15: back() from Detail clears the active category and the search term
\* and shows the grid with the list it had, without fetching the list again;
\* the page is discarded with its outstanding requests, and a later
\* selection starts with an empty search term and requests without a term.
C15_BackReturnsToGrid ==
  [][ /\ BackStep =>
           /\ NavigatorInGrid'
           /\ ~DetailMounted'
           /\ UNCHANGED << categories, listPending, browserLoading, browserError >>
           /\ series' = <<>>
           /\ totalCount' = 0
           /\ IsNull(detailError')
           /\ pageRequests' = EmptyBag
      /\ SelectCategoryStep =>
           /\ searchTerm' = ""
           /\ \A r \in NewPageRequests : IsNull(r.q) ]_vars

\* C15 witness: back in the grid, with the list kept, while a page request
\* of the Detail just left is still unanswered.
C15_Witness ==
  /\ BrowserMounted
  /\ NavigatorInGrid
  /\ categories = CategoryCollection
  /\ ~listPending
  /\ abandoned # {}
  /\ \E r \in abandoned : ~IsNull(r.q)

\* C16: back() while the Navigator is in the grid changes no state and
\* issues no gateway request.
C16_BackInGridIsNoOp ==
  [][ (onBack /\ IsNull(selectedCategoryId)) => UNCHANGED vars ]_vars

\* C16 witness: the grid with its list loaded, where back() has no effect.
C16_Witness ==
  /\ BrowserMounted
  /\ NavigatorInGrid
  /\ ~browserLoading
  /\ categories = SparseCollection
  /\ pageRequests = EmptyBag
  /\ abandoned = {}

\* A step in which the search term of the Detail view changes.
SearchStep == DetailMounted /\ DetailMounted' /\ searchTerm' # searchTerm

\* C17: in Detail, every change of the search term stores the new term and
\* issues exactly one new page request, for the active category and the new
\* term (no term when it is empty); the active category stays.
C17_SearchRefetches ==
  [][ SearchStep =>
        /\ selectedCategoryId' = selectedCategoryId
        /\ detailLoading'
        /\ \E r \in BagToSet(pageRequests') :
             /\ pageRequests' = pageRequests (+) SetToBag({r})
             /\ r.categoryId = Val(selectedCategoryId)
             /\ r.q = IF searchTerm' = "" THEN null ELSE Some(searchTerm') ]_vars

\* C17 witness: the page of "employment" was shown, then "u" was typed and
\* the filtered page is being fetched.
C17_Witness ==
  /\ DetailMounted
  /\ selectedCategoryId = Some("employment")
  /\ searchTerm = "u"
  /\ detailLoading
  /\ series = CatalogSeries("employment", null)
  /\ BagCardinality(pageRequests) = 1
  /\ \E r \in BagToSet(pageRequests) : r.q = Some("u")

\* A step in which the search term of the Detail view is cleared.
EmptySearchStep == SearchStep /\ searchTerm' = ""

\* The request that omits the search term: the one a selection issues.
TermOmitted(categoryId, categoryName) ==
  [categoryId |-> categoryId, categoryName |-> categoryName, q |-> null]

\* C18: a search with the empty term is the same gateway request as one
\* that omits the term: it carries no q parameter, the gateway's possible
\* answers and so the page contents are the same, and clearing the term
\* raises no error.
C18_EmptyTermIsNoFilter ==
  [][ EmptySearchStep =>
        /\ pageRequests' = pageRequests (+) SetToBag(
             {TermOmitted(Val(selectedCategoryId), selectedCategoryName)})
        /\ CategorySeriesExchanges(Val(selectedCategoryId), QueryOf(searchTerm'))
             = CategorySeriesExchanges(Val(selectedCategoryId), null)
        /\ IsNull(detailError') ]_vars

\* C18 witness: the filtered page of "employment" was shown, then the term
\* was cleared and the request without a term is outstanding.
C18_Witness ==
  /\ DetailMounted
  /\ searchTerm = ""
  /\ detailLoading
  /\ series = CatalogSeries("employment", Some("u"))
  /\ pageRequests = SetToBag({TermOmitted("employment", Some("Employment"))})

\* The messages with which a page request can fail.
PageFailureMessages(req) ==
  { fetchCategorySeries(x).message :
      x \in {y \in CategorySeriesExchanges(req.categoryId, req.q) :
               fetchCategorySeries(y).rejected} }

\* The pages with which a page request can succeed.
PagesOf(req) ==
  { Val(fetchCategorySeries(x).value) :
      x \in {y \in CategorySeriesExchanges(req.categoryId, req.q) :
               ~fetchCategorySeries(y).rejected} }

\* C19: whatever page response arrives, for the first request or a
\* search-scoped one, the Navigator stays in Detail with the same active
\* category and the same term, and the grid's state is untouched; the
\* response either is a failure, which leaves its message as the error of
\* the Detail view with an empty list, or a page, which is stored.
C19_PageFailureStaysInDetail ==
  [][ PageSettled =>
        /\ DetailMounted'
        /\ selectedCategoryId' = selectedCategoryId
        /\ UNCHANGED << browserVars, searchTerm >>
        /\ ~detailLoading'
        /\ \E req \in BagToSet(pageRequests) :
             /\ pageRequests' = pageRequests (-) SetToBag({req})
             /\ \/ /\ ~IsNull(detailError')
                   /\ Val(detailError') \in PageFailureMessages(req)
                   /\ series' = <<>>
                   /\ totalCount' = 0
                \/ /\ detailError' = detailError
                   /\ \E page \in PagesOf(req) :
                        /\ series' = page.series
                        /\ totalCount' = page.total_count ]_vars

\* C19 witness: a search-scoped request failed and the error is shown in
\* the Detail view of "employment".
C19_Witness ==
  /\ DetailMounted
  /\ selectedCategoryId = Some("employment")
  /\ searchTerm = "u"
  /\ detailError = Some("Category lookup failed")
  /\ series = <<>>
  /\ ~detailLoading
  /\ pageRequests = EmptyBag

\* The messages with which the category list request can fail.
CategoryFailureMessages ==
  { fetchCategories(x).message :
      x \in {y \in CategoriesExchanges : fetchCategories(y).rejected} }

\* A step that replaces the CategoryBrowser instance or removes it.
Remounted ==
  \/ categoryBrowserKey' # categoryBrowserKey
  \/ BrowserMounted /\ ~BrowserMounted'

\* The Navigator shows the category-list error: no cards, no Detail.
ShowsListError ==
  /\ BrowserMounted
  /\ ~IsNull(browserError)
  /\ ~browserLoading
  /\ categories = <<>>
  /\ NavigatorInGrid
  /\ ~DetailMounted

\* C20: a failed category list request leaves the Navigator showing the
\* failure message with an empty list and no Detail; from then on every step
\* keeps that error, the empty list and the grid, and issues no Navigator
\* request, unless it remounts the Navigator.
C20_ListErrorPersists ==
  [][ /\ (CategoriesSettled /\ ~IsNull(browserError')) =>
           /\ Val(browserError') \in CategoryFailureMessages
           /\ ShowsListError'
      /\ (~IsNull(browserError) /\ ~Remounted) =>
           /\ browserError' = browserError
           /\ ShowsListError'
           /\ UNCHANGED << listPending, pageRequests >>
           /\ abandoned' \subseteq abandoned ]_vars

\* C20 witness: the list request failed and the error is still shown while
\* a later submission is in flight.
C20_Witness ==
  /\ ShowsListError
  /\ browserError = Some("Failed to load")
  /\ ~listPending
  /\ loading
  /\ FetchesInFlight(requests) = 1

\* A step that mounts a CategoryBrowser instance.
MountStep ==
  \/ categoryBrowserKey' # categoryBrowserKey
  \/ ~BrowserMounted /\ BrowserMounted'

\* C21: the category list is requested once per mount of the Navigator: a
\* mount issues the request, no other step (selection, back, search, series
\* selection or anything else) issues one, and once the list has loaded it
\* is not modified while the instance lives.
C21_ListFetchedOncePerMount ==
  [][ /\ (MountStep /\ BrowserMounted') => (listPending' /\ categories' = <<>>)
      /\ ~MountStep => (listPending' => listPending)
      /\ (~MountStep /\ ~Remounted /\ BrowserMounted /\ ~listPending) =>
           categories' = categories ]_vars

\* C21 witness: the list loaded once; since then a category was opened, a
\* series selected and the grid shown again, all in the first instance.
C21_Witness ==
  /\ BrowserMounted
  /\ categoryBrowserKey = 0
  /\ categories = CategoryCollection
  /\ ~listPending
  /\ NavigatorInGrid
  /\ seriesId = <<"G">>

\* ------------------------------------------------------------- the chart

\* The observations of the active SeriesData, none when the list is missing.
ActiveObservations ==
  IF IsNull(fredData) \/ ~Val(fredData).hasObservations THEN <<>>
  ELSE Val(fredData).observations

\* How often x occurs in the sequence s.
Occurrences(s, x) == Cardinality({ i \in DOMAIN s : s[i] = x })

NonDecreasing(labels) ==
  \A i, j \in DOMAIN labels :
    i <= j => DateNumber(labels[i]) <= DateNumber(labels[j])

\* C22: for every non-empty observation set, in whatever order the gateway
\* returned it, the chart's labels are in non-decreasing date order and are a
\* permutation of the input dates, as many as the observation count.
C22_LabelsSortedPermutation ==
  ActiveObservations # <<>> =>
    /\ ~IsNull(chartData(fredData))
    /\ LET labels == Val(chartData(fredData)).labels
           dates  == [i \in DOMAIN ActiveObservations |->
                        ActiveObservations[i].date]
       IN  /\ NonDecreasing(labels)
           /\ Len(labels) = Val(fredData).observation_count
           /\ \A d \in ObservationDates :
                Occurrences(labels, d) = Occurrences(dates, d)

\* A set the gateway returned newest first, with one date twice.
C22_Witness ==
  /\ ~IsNull(fredData)
  /\ Len(ActiveObservations) = MaxObs
  /\ \E i \in 1..(MaxObs - 1) :
       DateNumber(ActiveObservations[i].date)
         > DateNumber(ActiveObservations[i + 1].date)
  /\ \E i, j \in 1..MaxObs :
       i # j /\ ActiveObservations[i].date = ActiveObservations[j].date
  /\ NonDecreasing(Val(chartData(fredData)).labels)

\* C23: for a SeriesData with zero observations or without an observation
\* list the chart data is null, the tab panel shows the no-data message, and
\* a chart is never rendered.
C23_NoChartWithoutObservations ==
  (~IsNull(fredData) /\ ActiveObservations = <<>>) =>
    /\ IsNull(chartData(fredData))
    /\ DataGraphRenders(fredData) # "Line"
    /\ TabPanelRenders = "no-data-message"

C23_Witness ==
  /\ ~IsNull(fredData)
  /\ ~Val(fredData).hasObservations
  /\ IsNull(chartData(fredData))
  /\ TabPanelRenders = "no-data-message"

\* C24: the chart keeps each value with its date and keeps absent values
\* absent: the pairs of labels[i] and values[i] are the pairs of date and
\* value of the input, and an absent value is null at its position.
C24_PairingAndAbsentValuesKept ==
  ActiveObservations # <<>> =>
    LET chart == Val(chartData(fredData))
        drawn == [i \in DOMAIN chart.labels |->
                    Observation(chart.labels[i], chart.values[i])]
    IN  /\ Len(chart.values) = Len(chart.labels)
        /\ \A o \in Observations :
             Occurrences(drawn, o) = Occurrences(ActiveObservations, o)

\* An absent value between two numbers, returned out of order, one of the
\* numbers being zero.
C24_Witness ==
  /\ Len(ActiveObservations) = MaxObs
  /\ \E i \in 1..MaxObs : IsNull(ActiveObservations[i].value)
  /\ \E i \in 1..MaxObs : ActiveObservations[i].value = Some(0)
  /\ DateNumber(ActiveObservations[1].date)
       > DateNumber(ActiveObservations[MaxObs].date)
  /\ \E i \in 1..MaxObs : IsNull(Val(chartData(fredData)).values[i])

\* ------------------------------------------------------ the gateway client

\* The calls of the client that have returned or thrown.
SettledCalls == { i \in DOMAIN requests : ~IsNull(requests[i].settled) }

\* C25: for each of the four operations a non-OK response becomes a
\* rejection whose message is the body's detail when the body is JSON with a
\* non-empty detail and the status line `HTTP error! status: <status>`
\* otherwise, an unparsable body included; a transport failure rejects with
\* the transport's own message.
C25_FailureBecomesRejection ==
  \A i \in SettledCalls :
    LET x == requests[i].exchange
        r == Val(requests[i].settled)
    IN  /\ ~IsNull(x.transport) => r = Rejected(Val(x.transport))
        /\ (IsNull(x.transport) /\ ~x.ok) =>
             /\ r.rejected
             /\ IsNull(r.value)
             /\ r.message = IF x.json /\ x.detail # "" THEN x.detail
                            ELSE IF x.status = 400 THEN "HTTP error! status: 400"
                            ELSE IF x.status = 404 THEN "HTTP error! status: 404"
                            ELSE "HTTP error! status: 500"

\* The category page answered 404 with a body that is not JSON.
C25_Witness ==
  /\ SettledCalls # {}
  /\ requests[1].op = "fetchCategorySeries"
  /\ IsNull(requests[1].exchange.transport)
  /\ requests[1].exchange.status = 404
  /\ ~requests[1].exchange.json
  /\ Val(requests[1].settled) = Rejected("HTTP error! status: 404")

\* C26: for every successful summarize response the result is the response
\* itself when it is a bare string, the value of its summary field when it is
\* an object that has one, and the object unchanged when it has none.
C26_SummaryFieldExtracted ==
  \A i \in SettledCalls :
    LET x == requests[i].exchange
        r == Val(requests[i].settled)
    IN  (requests[i].op = "summarizeData" /\ IsNull(x.transport) /\ x.ok) =>
          LET body == Val(x.payload)
          IN  /\ ~r.rejected
              /\ r.value = IF body.isString THEN Some(body)
                           ELSE IF body.hasSummary
                                THEN Some(SummaryBody(TRUE, body.text))
                                ELSE Some(body)

\* --------------------------------------------------- errors and old data

\* A step on which a submission ends with an error: the early return of
\* handleSubmit, or a rejection of one of its two awaits.
SubmitEndedInError ==
  /\ handleSubmit \/ FetchRejected \/ SummarizeRejected
  /\ ~IsNull(error')

\* C27: whenever a submit ends with an error being set (input validation,
\* fetch or summarize error), SeriesData and Summary are both null in the
\* resulting state, whatever an earlier submission had stored.
C27_ErrorsClearDataAndSummary ==
  [][ SubmitEndedInError => (IsNull(fredData') /\ IsNull(summary')) ]_vars

\* ------------------------------------------------- the layout preference

\* The flag a new Sidebar starts from: the stored one, or the default when
\* the key was never stored.
StartingFlag(stored, default) ==
  IF stored = null THEN default ELSE stored = Some("true")

StoredIsCurrent ==
  /\ localStorage.sidebarOpen = Some(IF sidebarOpen THEN "true" ELSE "false")
  /\ localStorage.categoriesExpanded =
       Some(IF categoriesExpanded THEN "true" ELSE "false")
  /\ localStorage.analyticsExpanded =
       Some(IF analyticsExpanded THEN "true" ELSE "false")

\* C28: the layout preference persists.  A toggle stores the new value of
\* its flag, so that stored and current values, once equal, stay equal over
\* any sequence of toggles; a newly mounted Sidebar starts from the stored
\* values, with the defaults (open, Categories expanded, Analytics
\* collapsed) for a flag that was never stored, and stores what it starts
\* from.
C28_LayoutPreferencePersists ==
  [][ /\ toggleSidebar =>
           /\ sidebarOpen' = ~sidebarOpen
           /\ localStorage'.sidebarOpen = Some(IF sidebarOpen' THEN "true" ELSE "false")
      /\ toggleCategories =>
           /\ categoriesExpanded' = ~categoriesExpanded
           /\ localStorage'.categoriesExpanded =
                Some(IF categoriesExpanded' THEN "true" ELSE "false")
      /\ toggleAnalytics =>
           /\ analyticsExpanded' = ~analyticsExpanded
           /\ localStorage'.analyticsExpanded =
                Some(IF analyticsExpanded' THEN "true" ELSE "false")
      /\ (toggleSidebar \/ toggleCategories \/ toggleAnalytics) =>
           (StoredIsCurrent => StoredIsCurrent')
      /\ Reload =>
           /\ sidebarOpen' = StartingFlag(localStorage.sidebarOpen, TRUE)
           /\ categoriesExpanded' =
                StartingFlag(localStorage.categoriesExpanded, TRUE)
           /\ analyticsExpanded' =
                StartingFlag(localStorage.analyticsExpanded, FALSE)
           /\ StoredIsCurrent' ]_vars

\* Analytics was expanded and the sidebar collapsed, both stored, while the
\* Categories key is not stored: the next Sidebar starts collapsed, with
\* Analytics expanded and Categories at its default.
C28_Witness ==
  /\ ~sidebarOpen /\ analyticsExpanded
  /\ localStorage = Storage(Some("false"), null, Some("true"))

\* ------------------------------------------------------ incomplete bodies

\* C29 as claimed: a response with a success status whose body lacks the
\* list (a category response without categories, a category page without
\* series) puts the owning component into its error state.
C29_Original_IncompleteBodyIsError ==
  [][ /\ CategoriesSettledFrom({IncompleteList}) => ~IsNull(browserError')
      /\ PageSettledFrom(IncompletePage) => ~IsNull(detailError') ]_vars

\* C29 amended: a response with a success status whose body lacks the list
\* is taken as an empty list: the category list becomes empty, the page
\* becomes empty with a total of 0, loading ends and no error is set.
C29_IncompleteBodyIsEmptyList ==
  [][ /\ CategoriesSettledFrom({IncompleteList}) =>
           /\ categories' = <<>>
           /\ IsNull(browserError')
           /\ ~browserLoading'
      /\ PageSettledFrom(IncompletePage) =>
           /\ series' = <<>>
           /\ totalCount' = 0
           /\ detailError' = detailError
           /\ ~detailLoading'
           /\ DetailMounted' ]_vars

\* The unfiltered page of a category came back without its series: the
\* Detail view shows an empty page without an error.
C29_Witness ==
  /\ DetailMounted
  /\ categories = CategoryCollection
  /\ searchTerm = ""
  /\ Outstanding = 0
  /\ ~detailLoading
  /\ series = <<>>
  /\ totalCount = 0
  /\ IsNull(detailError)

\* ------------------------------------------------------------ empty pages

\* C30: a category page that comes back successfully with zero series is
\* not an error, for the unfiltered request as for a search: the step sets
\* no error (a null Detail error stays null), the series list is empty and
\* loading ends, and where no error is held the empty-result message is
\* shown, the search-specific one when a term is set.
C30_EmptyPageIsNotAnError ==
  [][ PageSettledFrom(EmptyPage) =>
        /\ detailError' = detailError
        /\ series' = <<>>
        /\ totalCount' = 0
        /\ ~detailLoading'
        /\ DetailMounted'
        /\ IsNull(detailError') =>
             SeriesListRenders' =
               IF searchTerm' = "" THEN << "No series available in this category" >>
               ELSE << "No series found matching", searchTerm' >> ]_vars

\* A search came back without a match from a category without series.
C30_Witness ==
  /\ DetailMounted
  /\ searchTerm = "u"
  /\ Outstanding = 0
  /\ series = <<>>
  /\ totalCount = 0
  /\ IsNull(detailError)
  /\ SeriesListRenders = << "No series found matching", "u" >>

\* ------------------------------------------------- the integration script

\* C31: on every path on which the services were started, docker-compose
\* down has run before the script exits, whether the tests passed or failed:
\* the script never ends with the services up.
C31_ServicesStoppedBeforeExit ==
  script.pc = "exited" => ~script.services

\* -------------------------------------------------- the submission pipeline

\* C32: within one submission the summarize request is issued only after
\* the fetch request succeeded, at most once, and with exactly the
\* SeriesData the fetch returned: a summarize request appears only on the
\* step on which a fetch of the same submission is fulfilled, it takes the
\* place of that fetch request and carries the data stored on that step.
C32_SummarizeFollowsFetch ==
  [][ /\ SummarizesInFlight(requests') > SummarizesInFlight(requests) =>
           \E i \in 1..Len(requests) :
             /\ requests[i].op = "fetch"
             /\ \E x \in FetchExchanges(requests[i].id) :
                  /\ IsNull(x.transport) /\ x.ok
                  /\ fredData' = x.payload
                  /\ requests' =
                       [requests EXCEPT
                          ![i] = [op |-> "summarize", id |-> requests[i].id,
                                  data |-> x.payload]]
      /\ SummarizesInFlight(requests') <= 1
      /\ \A i \in 1..Len(requests') :
           requests'[i].op = "summarize" =>
             /\ requests'[i].data = fredData'
             /\ Val(requests'[i].data).series_id = requests'[i].id ]_vars

\* The fetch of G was fulfilled and its data is being summarized.
C32_Witness ==
  /\ loading
  /\ Len(requests) = 1
  /\ requests[1].op = "summarize"
  /\ requests[1].data = Some(SeriesData(<<"G">>, 2))
  /\ fredData = requests[1].data
  /\ IsNull(summary)

\* C33: the Orchestrator cycles Idle, Loading, outcome, Idle.  Loading
\* becomes true only by a valid submit from a non-loading state, which always
\* makes it true; it becomes false only when that submission ends, by fetch
\* failure, summarize failure or summarize success, each of which makes it
\* false; no other event (input error, series selection, Navigator event,
\* tab or layout toggle) changes Loading.
C33_LoadingCycle ==
  [][ /\ (~loading /\ loading') =>
           /\ handleSubmit /\ ~IsBlank(seriesId)
           /\ requests = <<>> /\ FetchesInFlight(requests') = 1
      /\ (handleSubmit /\ ~IsBlank(seriesId)) => (~loading /\ loading')
      /\ (loading /\ ~loading') =>
           /\ FetchRejected \/ SummarizeRejected \/ SummarizeFulfilled
           /\ Len(requests) = 1 /\ requests' = <<>>
      /\ (FetchRejected \/ SummarizeRejected \/ SummarizeFulfilled) =>
           (loading /\ ~loading')
      /\ ( \/ handleSubmit /\ IsBlank(seriesId)
           \/ handleInputChange \/ handleSeriesSelect \/ selectMainTab
           \/ toggleSidebar \/ toggleCategories \/ toggleAnalytics
           \/ CategoriesSettled \/ handleCategoryClick \/ handleBack
           \/ handleSearchChange \/ PageSettled \/ AbandonedSettled
           \/ FetchFulfilled ) => loading' = loading ]_vars

\* A second cycle is under way: the first submission ended in success and
\* another identifier was submitted.
C33_Witness ==
  /\ loading
  /\ FetchesInFlight(requests) = 1
  /\ categoryBrowserKey = 1
  /\ seriesId = <<"G", "G">>

\* ------------------------------------------------------- state ownership

\* The events of the Navigator other than the selection of a series.
NavigatorEvent ==
  \/ CategoriesSettled
  \/ handleCategoryClick
  \/ handleBack
  \/ handleSearchChange
  \/ PageSettled
  \/ AbandonedSettled

\* The events of the Orchestrator other than the end of a successful
\* submission.
OrchestratorEvent ==
  \/ handleInputChange
  \/ handleSubmit
  \/ FetchFulfilled
  \/ FetchRejected
  \/ SummarizeRejected
  \/ selectMainTab

\* C34: no Navigator event changes the Orchestrator's Loading, error,
\* SeriesData or Summary (nor anything else of the Orchestrator); a series
\* selection writes the pending input and nothing else; no Orchestrator event
\* changes the Navigator's category list, active category, search term or
\* page, except the reset at the end of a successful submission.
C34_StateOwnership ==
  [][ /\ NavigatorEvent => UNCHANGED appVars
      /\ handleSeriesSelect =>
           /\ UNCHANGED << loading, error, fredData, summary, activeTab,
                           categoryBrowserKey, requests >>
           /\ UNCHANGED navigatorVars
           /\ \E k \in 1..Len(series) : seriesId' = series[k]
      /\ OrchestratorEvent => UNCHANGED navigatorVars
      /\ ~UNCHANGED << categories, selectedCategoryId, searchTerm, series,
                       totalCount >> =>
           \/ NavigatorEvent
           \/ SummarizeFulfilled
           \/ toggleSidebar \/ toggleCategories ]_vars

\* With the data and summary of G on the page, the user searched a category
\* and selected another series: only the pending input changed.
C34_Witness ==
  /\ fredData = Some(SeriesData(<<"G">>, 2))
  /\ ~IsNull(summary)
  /\ ~loading /\ IsNull(error)
  /\ DetailMounted
  /\ searchTerm = "u"
  /\ seriesId = <<"G", "G">>

\* ----------------------------------------------------- the loading flag

\* C35: in Detail the loading flag is true in every state in which at least
\* one page request of the Detail view is outstanding, also when several
\* search requests overlap.
C35_LoadingWhileOutstanding ==
  (DetailMounted /\ pageRequests # EmptyBag) => detailLoading

\* ------------------------------------------- selections during Loading

\* The identifiers of the submissions in flight, in order.
IdentifiersInFlight == [i \in 1..Len(requests) |-> requests[i].id]

\* C36: the identifier of a submission is fixed when submit is invoked.  A
\* series selection while Loading is true changes the pending input and
\* nothing of the submission in flight; the SeriesData stored when the fetch
\* is fulfilled is that of the submitted identifier, and the data and summary
\* held when the pipeline settles are those of that submission.
C36_IdentifierFixedAtSubmit ==
  [][ /\ (handleSeriesSelect /\ loading) =>
           /\ requests' = requests
           /\ UNCHANGED << loading, error, fredData, summary >>
      /\ (handleSubmit /\ ~IsBlank(seriesId)) =>
           IdentifiersInFlight' = << ExpectedIdentifier(seriesId) >>
      /\ (requests # <<>> /\ requests' # <<>>) =>
           IdentifiersInFlight' = IdentifiersInFlight
      /\ FetchFulfilled =>
           /\ Val(fredData').series_id = requests[1].id
           /\ Val(fredData') = SeriesData(requests[1].id,
                                          ObservationCount(requests[1].id))
      /\ SummarizeFulfilled =>
           /\ fredData' = requests[1].data
           /\ Val(fredData').series_id = requests[1].id
           /\ ~IsNull(summary') ]_vars

\* While the data of G was being summarized, the series GG was selected in
\* the Navigator.
C36_Witness ==
  /\ loading
  /\ Len(requests) = 1
  /\ requests[1].op = "summarize"
  /\ requests[1].id = <<"G">>
  /\ seriesId = <<"G", "G">>
  /\ fredData = Some(SeriesData(<<"G">>, 2))
  /\ DetailMounted

\* --------------------------------------- responses and Detail instances

\* A CategorySeriesPage response arrives, at the mounted Detail instance or
\* at one that is gone.
PageResponseArrives == PageSettled \/ AbandonedSettled

\* The step puts the outcome of exchange x into the page shown.
AppliesPageOf(x) ==
  LET r == fetchCategorySeries(x)
  IN  IF r.rejected
      THEN /\ detailError' = Some(r.message)
           /\ series' = <<>>
           /\ totalCount' = 0
      ELSE /\ series' = Val(r.value).series
           /\ totalCount' = Val(r.value).total_count
           /\ UNCHANGED detailError

\* C37: a CategorySeriesPage response is applied only to the Detail instance
\* that requested it: the requests of the mounted instance are all for the
\* active category, a response arriving in Grid (after back or a Navigator
\* reset) changes nothing of the Navigator, and a response that changes the
\* page shown answers a request for the active category.
C37_ResponseOnlyToRequester ==
  [][ /\ DetailMounted =>
           \A req \in BagToSet(pageRequests) :
             req.categoryId = Val(selectedCategoryId)
      /\ ~DetailMounted => pageRequests = EmptyBag
      /\ (PageResponseArrives /\ ~DetailMounted) =>
           UNCHANGED << appVars, sidebarVars, browserVars, detailVars >>
      /\ AbandonedSettled =>
           UNCHANGED << appVars, sidebarVars, browserVars, detailVars >>
      /\ (PageResponseArrives /\ detailVars' # detailVars) =>
           /\ DetailMounted /\ DetailMounted'
           /\ UNCHANGED << selectedCategoryId, abandoned >>
           /\ \E req \in BagToSet(pageRequests) :
                /\ req.categoryId = Val(selectedCategoryId)
                /\ pageRequests' = pageRequests (-) SetToBag({req})
                /\ \E x \in CategorySeriesExchanges(Val(selectedCategoryId),
                                                    req.q) :
                     AppliesPageOf(x) ]_vars

\* The page of 'inflation' is shown while the request made for 'employment'
\* before going back is still unanswered.
C37_Witness ==
  /\ DetailMounted
  /\ selectedCategoryId = Some("inflation")
  /\ pageRequests = EmptyBag
  /\ ~detailLoading
  /\ series = << <<"G">> >>
  /\ \E req \in abandoned : req.categoryId = "employment"

\* ------------------------------------------- the summary and its data

\* C38: in every reachable state of the page a non-null summary comes with
\* non-null series data.
C38_SummaryImpliesData == ~IsNull(summary) => ~IsNull(fredData)

\* A submission of GG has settled: its summary is held with its data.
C38_Witness ==
  /\ ~IsNull(summary)
  /\ ~IsNull(fredData)
  /\ Val(fredData).series_id = <<"G", "G">>
  /\ ~loading
  /\ IsNull(error)
  /\ requests = <<>>

\* ------------------------------------- the reset and the layout flags

\* The layout preferences of the Sidebar.
LayoutFlags == << sidebarOpen, categoriesExpanded, analyticsExpanded >>

\* C39: a Navigator reset leaves the layout preferences unchanged.  The step
\* that changes the Sidebar's key, which is the settling of a successful
\* submission, leaves the open flag, the two section flags and what is
\* stored of them as they were, whatever toggles came before.
C39_ResetKeepsLayout ==
  [][ /\ (categoryBrowserKey' # categoryBrowserKey) =>
           /\ LayoutFlags' = LayoutFlags
           /\ UNCHANGED localStorage
      /\ (SummarizeFulfilled /\ ~IsNull(summary')) =>
           /\ categoryBrowserKey' = categoryBrowserKey + 1
           /\ LayoutFlags' = LayoutFlags ]_vars

\* After the reset the sidebar is still collapsed, Categories still
\* collapsed and Analytics still expanded: none of them the default.
C39_Witness ==
  /\ categoryBrowserKey = 1
  /\ ~IsNull(summary)
  /\ ~loading
  /\ ~sidebarOpen
  /\ ~categoriesExpanded
  /\ analyticsExpanded
  /\ localStorage = Persisted(FALSE, FALSE, TRUE)

\* ------------------------------------------------ the way into Detail

\* The category list of the mounted Navigator is not there to choose from:
\* the request is in flight, it failed, or it returned no category.
NoListToChooseFrom ==
  \/ listPending
  \/ browserLoading
  \/ ~IsNull(browserError)
  \/ categories = <<>>

\* C40: Detail is reachable only after the category list has loaded
\* successfully with at least one category.  A selection happens only on a
\* loaded, non-empty list and picks one of its categories; while the list
\* request is in flight, after it failed, or when it returned an empty list,
\* no category is selected in this state or by the next step.
C40_DetailOnlyAfterListLoaded ==
  [][ /\ SelectCategoryStep =>
           /\ GridShowsCards
           /\ ~NoListToChooseFrom
           /\ \E k \in 1..Len(categories) :
                selectedCategoryId' = Some(categories[k].id)
      /\ ~IsNull(selectedCategoryId) => ~NoListToChooseFrom
      /\ NoListToChooseFrom =>
           /\ IsNull(selectedCategoryId) /\ IsNull(selectedCategoryId')
           /\ ~DetailMounted /\ ~DetailMounted' ]_vars

\* The list request of the mounted Navigator has returned an empty list:
\* the grid has no card and no category is selected.
C40_Witness ==
  /\ BrowserMounted
  /\ ~listPending
  /\ ~browserLoading
  /\ IsNull(browserError)
  /\ categories = <<>>
  /\ IsNull(selectedCategoryId)
  /\ ~DetailMounted

====
